---- MODULE Spec2Model ----
(***************************************************************************)
(* Model of speck's workflow execution core:                               *)
(*   - the Process Runtime of services/process.rs (the child process, its  *)
(*     two reader threads, the shared running flag, the event channel and  *)
(*     the log file behind one ProcessHandle),                             *)
(*   - the WorkflowCommand / ExecutionState record of domain/workflow.rs,  *)
(*   - the phase engine of domain/spec.rs,                                 *)
(*   - the control thread of app.rs (workflow menu, run_workflow,          *)
(*     cancel_command, poll_process_output),                               *)
(*   - the worktree manager of services/git.rs over a model of the git     *)
(*     commands it runs,                                                   *)
(*   - the MCP client of services/mcp.rs (JSON-RPC over the pipes of a     *)
(*     child process) with a model of that peer,                           *)
(*   - the worktree management view of ui/widgets/worktree_list.rs and its *)
(*     key handler in app.rs, SpecId of domain/spec.rs and the output      *)
(*     buffer of ui/widgets/output_panel.rs.                               *)
(*                                                                         *)
(* Specifications:                                                         *)
(*   Spec      the application while commands execute: run_workflow,       *)
(*             cancel and poll on the control thread, interleaved with the *)
(*             child and the reader threads of the active command.         *)
(*   SpecMenu  the control thread alone, with the overview and workflow menu *)
(*             keys.                                                       *)
(*   SpecProc  one ProcessHandle used directly by a caller (try_recv,      *)
(*             kill, wait), interleaved with the child and the readers.    *)
(*   SpecPoll  App::poll_process_output applied to every short sequence of *)
(*             ProcessOutput values.                                       *)
(*   SpecPhase the specification list: refresh_specs derives the phases    *)
(*             from the artifacts on disk, the workflow menu offers the    *)
(*             commands of the selected phase.                             *)
(*   SpecGit   GitService on one repository: list, create, delete and      *)
(*             status calls, interleaved with edits in the worktrees.      *)
(*   SpecStatus GitService::worktree_status applied to every short output  *)
(*             of `git status --porcelain`.                                *)
(*   SpecMcp   one McpClient of services/mcp.rs from construction to drop, *)
(*             interleaved with its peer process, which answers, stops     *)
(*             answering or exits.                                         *)
(*   SpecMcpLive  SpecMcp under a scheduler that lets a waiting read and   *)
(*             an answering peer proceed.                                  *)
(*   SpecMcpNoisy  the client with a peer that also writes notifications *)
(*             between its replies.                                        *)
(*   SpecArgs  call_workflow applied to every command type and extra_args. *)
(*   SpecSpecId  SpecId::new and SpecId::parse applied to short strings.   *)
(*   SpecDialog  the methods of WorktreeManagementState in any order.      *)
(*   SpecManage  the keys of the worktree management view over GitService. *)
(*   SpecBuffer  OutputBuffer::push repeated past the line limit.          *)
(*   SpecLive, SpecProcLive  Spec and SpecProc under a scheduler that lets *)
(*             the reader threads and the polling caller proceed.          *)
(***************************************************************************)
EXTENDS Integers, Sequences, FiniteSets, TLC

\* ------------------------------------------------------------------ bounds
\* Lines written by the child of a handle that a caller holds directly,
\* both streams together.
MaxLines == 3
\* Calls of ProcessHandle::kill on one handle.
MaxKills == 2
\* Processes spawned by one application instance.
MaxSpawns == 2
\* Events preloaded in the channel under SpecPoll.
MaxEvents == 2
\* Lines written by the child of a command the application started.
MaxAppLines == 1

\* ------------------------------------------------------- program constants
\* output_panel.rs: const MAX_OUTPUT_LINES: usize = 1000;
MAX_OUTPUT_LINES == 1000

Streams == {"Stdout", "Stderr"}
ExitCodes == {0, 1}
\* "no exit code": what wait() returns for a child killed by a signal, and
\* the value of exit_code while the child has not exited.
NoCode == -1

\* What the last call on the control thread returned: "Ok", "Some", "None"
\* or "Err: <message>", and the exit code when the call was wait().
Returned(op, val) == [op |-> op, val |-> val, code |-> NoCode]

VARIABLES
    \* ---- process runtime: one ProcessHandle, its child and its threads
    child,          \* "none" | "alive" | "exited" | "killed"
    exit_code,      \* code the child exited with (NoCode while none)
    written,        \* [Streams -> Seq(line)]: what the child wrote to each pipe
    reader,         \* [Streams -> [pc, pos, cur]]: the two reader threads
    chan,           \* unbounded channel: events sent and not yet received
    log,            \* lines appended to the log file after its header
    has_log,        \* handle made by spawn_workflow (TRUE) or spawn_command
    running,        \* Arc<Mutex<bool>> shared by the handle and the readers
    received,       \* every event try_recv has returned, in order
    kills,          \* number of kill() calls made on this handle
    waited,         \* wait() has returned on this handle
    ret,            \* value returned by the last call on the control thread
    \* ---- application
    specs,          \* App.specs: the phase of each discovered specification
    active_command, \* App.active_command
    output_buffer,  \* App.output_buffer.lines
    view,           \* App.view
    selected_spec_index,
    available_workflows,
    selected_workflow_index,
    spawned,        \* processes spawned so far
    via_menu,       \* the active command was started by run_selected_workflow
    pc_ctl,         \* control thread: "idle" | "poll" (inside the drain loop)
    \* ---- the project on disk and its git repository
    artifacts,      \* per specification directory: which artifact files exist
    registry,       \* git's worktree records, in the order git lists them
    disk,           \* the paths that exist in the file system
    status_out,     \* [path -> lines `git status --porcelain` prints there]
    git_ret,        \* value returned by the last GitService call
    \* ---- one McpClient and the peer process behind its pipes
    client,         \* the McpClient: process, stdin, stdout_reader, next_id,
                    \* initialized
    peer,           \* the child: state "none" | "alive" | "hung" | "dead" and
                    \* the number of requests it has answered
    spawns,         \* peer processes spawned so far
    sent,           \* messages written on the current connection, in order
    inbox,          \* lines the peer has written and the client has not read
    mcp_pc,         \* "idle", the request call waiting for a line, "dropped"
    mcp_ret,        \* value returned by the last McpClient call
    \* ---- worktree management view
    mgmt,           \* App.worktree_management_state
    app_worktrees,  \* App.worktrees: the list loaded by the last refresh
    error_message,  \* App.error_message
    mgmt_ret,       \* value returned by the last WorktreeManagementState call
    \* ---- functions applied to their inputs
    wf,             \* call_workflow: its arguments and the request it builds
    sid,            \* SpecId: the input and what new, parse, number, name give
    pushes          \* number of OutputBuffer::push calls on output_buffer

procVars == <<child, exit_code, written, reader, chan, log, has_log, running,
              received, kills, waited>>
appVars == <<specs, active_command, output_buffer, view, selected_spec_index,
             available_workflows, selected_workflow_index, spawned, via_menu,
             pc_ctl>>
repoVars == <<registry, disk, status_out, git_ret>>
diskVars == <<artifacts, repoVars>>
mcpVars == <<client, peer, spawns, sent, inbox, mcp_pc, mcp_ret>>
uiVars == <<mgmt, app_worktrees, error_message, mgmt_ret>>
pureVars == <<wf, sid, pushes>>
moreVars == <<uiVars, pureVars>>
vars == <<procVars, ret, appVars, diskVars, mcpVars, moreVars>>

\* ------------------------------------------------------------ ProcessOutput
Stdout(text) == [type |-> "Stdout", text |-> text]
Stderr(text) == [type |-> "Stderr", text |-> text]
Exit(code) == [type |-> "Exit", code |-> code]
Terminated == [type |-> "Terminated"]
Error(msg) == [type |-> "Error", msg |-> msg]

LineEvent(s, text) == IF s = "Stdout" THEN Stdout(text) ELSE Stderr(text)

\* e.to_string() of the io::Error that BufRead::lines yields for a line it
\* cannot decode.
ReadErrorText == "stream did not contain valid UTF-8"

\* --------------------------------------------------------- the child process
\* A line is the text the child wrote and whether lines() can decode it.
Line(text, ok) == [text |-> text, ok |-> ok]

TotalWritten == Len(written["Stdout"]) + Len(written["Stderr"])

\* How many lines the child may write in all: the application has spawned
\* nothing when a caller holds the handle directly.
LineBudget == IF spawned = 0 THEN MaxLines ELSE MaxAppLines

\* The child writes one more line to one of its pipes.  Texts are the
\* position of the line in its stream, so that every line is distinct.
ChildWrite(s) ==
    /\ child = "alive"
    /\ TotalWritten < LineBudget
    /\ \E ok \in BOOLEAN :
         written' = [written EXCEPT
                       ![s] = Append(@, Line(Len(written[s]) + 1, ok))]
    /\ UNCHANGED <<child, exit_code, reader, chan, log, has_log, running,
                   received, kills, waited, ret, appVars>>

\* The child exits on its own; both pipes reach end of file once drained.
ChildExit ==
    /\ child = "alive"
    /\ \E c \in ExitCodes : exit_code' = c
    /\ child' = "exited"
    /\ UNCHANGED <<written, reader, chan, log, has_log, running, received,
                   kills, waited, ret, appVars>>

\* ----------------------------------------------------------- reader threads
FreshReader == [pc |-> "read", pos |-> 0, cur |-> Line(0, TRUE)]
IdleReader == [pc |-> "done", pos |-> 0, cur |-> Line(0, TRUE)]

\* tx.send(ev): the event goes to the back of the channel.
ChanSendFront(ch, ev) == <<ev>> \o ch
ChanSend(ch, ev) == Append(ch, ev)

\* `for line in reader.lines()`: the next item of the stream.
NextLine(s) == written[s][reader[s].pos + 1]

\* `if !*running_clone.lock().unwrap() { break; }`: the loop ends when the
\* flag r is found cleared.
flag_cleared_never(r) == FALSE
flag_cleared(r) == ~r

\* One iteration head of `for line in reader.lines() { if !running { break } ..`:
\* the blocking read returns the next line (or end of file once the child is
\* gone and the pipe is drained), then the flag is checked under its lock.
\* The read has no effect other threads can see, so read and check are one
\* step taken at the moment of the check.
ReaderRead(s) ==
    /\ child # "none"
    /\ reader[s].pc = "read"
    /\ IF reader[s].pos < Len(written[s])
         THEN reader' = [reader EXCEPT
                ![s] = [pc  |-> IF flag_cleared(running) THEN "done"
                                ELSE IF NextLine(s).ok /\ has_log THEN "log"
                                ELSE "send",
                        pos |-> @.pos + 1,
                        cur |-> NextLine(s)]]
         ELSE /\ child \in {"exited", "killed"}
              /\ reader' = [reader EXCEPT ![s].pc = "done"]
    /\ UNCHANGED <<child, exit_code, written, chan, log, has_log, running,
                   received, kills, waited, ret, appVars>>

LogTag(s) == IF s = "Stdout" THEN "[OUT]" ELSE "[ERR]"

\* `if let Ok(mut f) = OpenOptions::new().append(true).open(&log_path)
\*      { let _ = writeln!(f, "[OUT] {}", text); }`
\* The append is attempted before the send; when the open or the write
\* fails the failure is ignored and the line is sent all the same.
ReaderLog(s) ==
    /\ reader[s].pc = "log"
    /\ \E appended \in BOOLEAN :
         log' = IF appended
                  THEN Append(log, [tag |-> LogTag(s), text |-> reader[s].cur.text])
                  ELSE log
    /\ reader' = [reader EXCEPT ![s].pc = "send"]
    /\ UNCHANGED <<child, exit_code, written, chan, has_log, running,
                   received, kills, waited, ret, appVars>>

\* Ok(text) => tx.send(Stdout(text)), next iteration;
\* Err(e)   => tx.send(Error(e.to_string())), break.
ReaderSend(s) ==
    /\ reader[s].pc = "send"
    /\ IF reader[s].cur.ok
         THEN /\ chan' = ChanSend(chan, LineEvent(s, reader[s].cur.text))
              /\ reader' = [reader EXCEPT ![s].pc = "read"]
         ELSE /\ chan' = ChanSend(chan, Error(ReadErrorText))
              /\ reader' = [reader EXCEPT ![s].pc = "done"]
    /\ UNCHANGED <<child, exit_code, written, log, has_log, running,
                   received, kills, waited, ret, appVars>>

\* ------------------------------------------------------------ ProcessHandle
is_running == running

\* ProcessHandle::try_recv: the next buffered event, or None.
TryRecv ==
    /\ child # "none"
    /\ IF chan # <<>>
         THEN /\ received' = Append(received, Head(chan))
              /\ chan' = Tail(chan)
              /\ ret' = Returned("try_recv", "Some")
         ELSE /\ ret' = Returned("try_recv", "None")
              /\ UNCHANGED <<received, chan>>
    /\ UNCHANGED <<child, exit_code, written, reader, log, has_log, running,
                   kills, waited, appVars>>

\* `*self.running.lock().unwrap() = false;`
FlagAfterKillToggled(r) == ~r
FlagAfterKill(r) == FALSE

\* Child::kill(): a live child is terminated; for a child that has already
\* exited std returns Ok(()) and does nothing.
ChildAfterKill(c) == IF c = "alive" THEN "killed" ELSE c

\* ProcessHandle::kill
Kill ==
    /\ child # "none"
    /\ kills < MaxKills
    /\ running' = FlagAfterKill(running)
    /\ child' = ChildAfterKill(child)
    /\ kills' = kills + 1
    /\ ret' = Returned("kill", "Ok")
    /\ UNCHANGED <<exit_code, written, reader, chan, log, has_log, received,
                   waited, appVars>>

\* ProcessHandle::wait: blocks until the child is gone, then clears the flag
\* and returns the exit code, -1 when there is none (killed by a signal).
Wait ==
    /\ child \in {"exited", "killed"}
    /\ ~waited
    /\ running' = FALSE
    /\ waited' = TRUE
    /\ ret' = [op |-> "wait", val |-> "Ok",
               code |-> IF child = "exited" THEN exit_code ELSE -1]
    /\ UNCHANGED <<child, exit_code, written, reader, chan, log, has_log,
                   received, kills, appVars>>

\* State of a handle right after spawn_workflow / spawn_command returned it.
SpawnedHandle(logging) ==
    /\ child' = "alive"
    /\ exit_code' = NoCode
    /\ written' = [s \in Streams |-> <<>>]
    /\ reader' = [s \in Streams |-> FreshReader]
    /\ chan' = <<>>
    /\ log' = <<>>
    /\ has_log' = logging
    /\ running' = TRUE
    /\ received' = <<>>
    /\ kills' = 0
    /\ waited' = FALSE

\* ------------------------------------------- domain/workflow.rs, spec.rs
CommandTypes == {"Specify", "Clarify", "Plan", "Tasks", "Implement"}
Phases == {"Specify", "Clarify", "Tasks", "Implement"}

\* WorkflowPhase::available_commands
available_commands_shifted(phase) ==
    CASE phase = "Specify"   -> <<"Specify">>
      [] phase = "Clarify"   -> <<"Clarify">>
      [] phase = "Tasks"     -> <<"Plan", "Tasks">>
      [] phase = "Implement" -> <<"Implement">>

available_commands(phase) ==
    CASE phase = "Specify"   -> <<"Specify">>
      [] phase = "Clarify"   -> <<"Clarify", "Plan">>
      [] phase = "Tasks"     -> <<"Tasks">>
      [] phase = "Implement" -> <<"Implement">>

\* ExecutionState (start time, pid and duration are not modelled)
PendingState == [tag |-> "Pending"]
RunningState == [tag |-> "Running"]
Completed(code) == [tag |-> "Completed", exit_code |-> code]
Cancelled == [tag |-> "Cancelled"]
Failed(e) == [tag |-> "Failed", error |-> e]

is_finished(state) == state.tag \in {"Completed", "Cancelled", "Failed"}

\* App.active_command = None
NoCommand == [id |-> 0, command_type |-> "None", spec_id |-> 0,
              state |-> [tag |-> "None"]]

\* WorkflowCommand::new; id tells one command record from the next.
new(id, command_type, spec_id) ==
    [id |-> id, command_type |-> command_type, spec_id |-> spec_id,
     state |-> PendingState]

\* WorkflowCommand::start
start(cmd) == [cmd EXCEPT !.state = RunningState]

\* WorkflowCommand::complete: only a Running command completes.
completeLosingCode(cmd, code) ==
    IF cmd.state.tag = "Running" THEN [cmd EXCEPT !.state = Completed(0)]
    ELSE cmd
complete(cmd, code) ==
    IF cmd.state.tag = "Running" THEN [cmd EXCEPT !.state = Completed(code)]
    ELSE cmd

\* WorkflowCommand::cancel
cancel(cmd) == [cmd EXCEPT !.state = Cancelled]

\* WorkflowCommand::fail
fail(cmd, e) == [cmd EXCEPT !.state = Failed(e)]

\* `if let Some(ref mut cmd) = self.active_command { f(cmd) }`
OnCommand(cmd, changed) == IF cmd = NoCommand THEN cmd ELSE changed

\* ------------------------------------------------- ui/widgets/output_panel.rs
OutputLine(content, stream) == [content |-> content, stream |-> stream]

\* A push that drops the newest line over the cap.
push_keeping_oldest(lines, content, stream) ==
    LET pushed_lines == Append(lines, OutputLine(content, stream))
    IN  IF Len(pushed_lines) > MAX_OUTPUT_LINES
          THEN SubSeq(pushed_lines, 1, MAX_OUTPUT_LINES)
        ELSE pushed_lines

\* OutputBuffer::push: append, then drop the oldest line over the cap.
push(lines, content, stream) ==
    LET pushed == Append(lines, OutputLine(content, stream))
    IN  IF Len(pushed) > MAX_OUTPUT_LINES THEN Tail(pushed) ELSE pushed
push_stdout(lines, content) == push(lines, content, "Stdout")
push_stderr(lines, content) == push(lines, content, "Stderr")

\* --------------------------------------------------------------------- app.rs
HasHandle == child # "none"

\* App::is_command_running: the handle's running flag, false without a handle.
is_command_running_negated == HasHandle /\ ~is_running
is_command_running == HasHandle /\ is_running

\* App::selected_spec: specs.get(selected_spec_index), as a 1-based position
\* (0 for None).
selected_spec ==
    IF selected_spec_index < Len(specs) THEN selected_spec_index + 1 ELSE 0

\* App::get_available_workflows
get_available_workflows_first ==
    IF Len(specs) > 0 THEN available_commands(specs[1]) ELSE <<>>
get_available_workflows ==
    IF selected_spec # 0 THEN available_commands(specs[selected_spec]) ELSE <<>>

ctlVars == <<specs, selected_spec_index, available_workflows,
             selected_workflow_index, pc_ctl>>

\* App::run_workflow(command_type, spec).  The admission check comes first;
\* start_command may fail (log directory, log file, spawn); on success the
\* new command and handle replace the previous ones (the previous handle is
\* dropped: its receiver is gone and its readers' sends go nowhere).
\* `on_err_view` is the view the caller leaves the application in on Err.
run_workflow(command_type, spec, by_menu, on_err_view) ==
    \E spawn_ok \in BOOLEAN :
      IF is_command_running
        THEN /\ ret' = Returned("run_workflow",
                                 "Err: A command is already running")
             /\ view' = on_err_view
             /\ UNCHANGED <<procVars, active_command, output_buffer, spawned,
                            via_menu, ctlVars>>
      ELSE IF ~spawn_ok
        THEN /\ ret' = Returned("run_workflow",
                                 "Err: Failed to start command")
             /\ view' = on_err_view
             /\ UNCHANGED <<procVars, active_command, output_buffer, spawned,
                            via_menu, ctlVars>>
      ELSE /\ spawned < MaxSpawns
           /\ SpawnedHandle(TRUE)
           /\ active_command' = start(new(spawned + 1, command_type, spec))
           /\ output_buffer' = <<>>
           /\ view' = "CommandOutput"
           /\ spawned' = spawned + 1
           /\ via_menu' = by_menu
           /\ ret' = Returned("run_workflow", "Ok")
           /\ UNCHANGED ctlVars

\* A caller of the library invokes App::run_workflow with any command type,
\* on the selected specification.
RunWorkflow(command_type) ==
    /\ pc_ctl = "idle"
    /\ selected_spec # 0
    /\ run_workflow(command_type, selected_spec, FALSE, view)

\* App::cancel_command
cancel_command ==
    /\ IF HasHandle
         THEN /\ running' = FlagAfterKill(running)
              /\ child' = ChildAfterKill(child)
              /\ kills' = kills + 1
         ELSE UNCHANGED <<running, child, kills>>
    /\ active_command' = OnCommand(active_command,
                                   [active_command EXCEPT !.state = Cancelled])
    /\ output_buffer' = push_stderr(output_buffer, "Command cancelled by user")
    /\ UNCHANGED <<exit_code, written, reader, chan, log, has_log, received,
                   waited, ret, specs, view, selected_spec_index,
                   available_workflows, selected_workflow_index, spawned,
                   via_menu, pc_ctl>>

\* ---- key handlers (App::handle_key), one key per step

\* Overview, Up/k and Down/j: select_previous / select_next
KeyMoveUp ==
    /\ pc_ctl = "idle" /\ view = "Overview"
    /\ selected_spec_index' =
         IF selected_spec_index > 0 THEN selected_spec_index - 1
         ELSE selected_spec_index
    /\ UNCHANGED <<procVars, ret, specs, active_command, output_buffer, view,
                   available_workflows, selected_workflow_index, spawned,
                   via_menu, pc_ctl>>

KeyMoveDown ==
    /\ pc_ctl = "idle" /\ view = "Overview"
    /\ selected_spec_index' =
         IF Len(specs) > 0 /\ selected_spec_index < Len(specs) - 1
           THEN selected_spec_index + 1
         ELSE selected_spec_index
    /\ UNCHANGED <<procVars, ret, specs, active_command, output_buffer, view,
                   available_workflows, selected_workflow_index, spawned,
                   via_menu, pc_ctl>>

\* Overview, r: App::open_workflow_menu
KeyRunWorkflow ==
    /\ pc_ctl = "idle" /\ view = "Overview"
    /\ available_workflows' = get_available_workflows
    /\ IF get_available_workflows = <<>>
         THEN UNCHANGED <<selected_workflow_index, view>>
         ELSE /\ selected_workflow_index' = 0
              /\ view' = "WorkflowMenu"
    /\ UNCHANGED <<procVars, ret, specs, active_command, output_buffer,
                   selected_spec_index, spawned, via_menu, pc_ctl>>

\* Overview, c or Ctrl+C: Action::CancelCommand
KeyCancelCommand ==
    /\ pc_ctl = "idle" /\ view = "Overview"
    /\ IF is_command_running THEN cancel_command ELSE UNCHANGED vars

\* Workflow menu, Esc/q
KeyMenuEsc ==
    /\ pc_ctl = "idle" /\ view = "WorkflowMenu"
    /\ view' = "Overview"
    /\ UNCHANGED <<procVars, ret, specs, active_command, output_buffer,
                   selected_spec_index, available_workflows,
                   selected_workflow_index, spawned, via_menu, pc_ctl>>

\* Workflow menu, Up/k and Down/j: select_previous_workflow / select_next_workflow
KeyMenuUp ==
    /\ pc_ctl = "idle" /\ view = "WorkflowMenu"
    /\ selected_workflow_index' =
         IF selected_workflow_index > 0 THEN selected_workflow_index - 1
         ELSE selected_workflow_index
    /\ UNCHANGED <<procVars, ret, specs, active_command, output_buffer, view,
                   selected_spec_index, available_workflows, spawned,
                   via_menu, pc_ctl>>

KeyMenuDown ==
    /\ pc_ctl = "idle" /\ view = "WorkflowMenu"
    /\ selected_workflow_index' =
         IF Len(available_workflows) > 0
            /\ selected_workflow_index < Len(available_workflows) - 1
           THEN selected_workflow_index + 1
         ELSE selected_workflow_index
    /\ UNCHANGED <<procVars, ret, specs, active_command, output_buffer, view,
                   selected_spec_index, available_workflows, spawned,
                   via_menu, pc_ctl>>

\* Workflow menu, Enter/Space: App::run_selected_workflow; on Err the handler
\* stores the message and returns to the overview.
KeyMenuEnter ==
    /\ pc_ctl = "idle" /\ view = "WorkflowMenu"
    /\ IF selected_spec = 0
         THEN /\ ret' = Returned("run_selected_workflow",
                                  "Err: No spec selected")
              /\ view' = "Overview"
              /\ UNCHANGED <<procVars, active_command, output_buffer, spawned,
                             via_menu, ctlVars>>
       ELSE IF selected_workflow_index >= Len(available_workflows)
         THEN /\ ret' = Returned("run_selected_workflow",
                                  "Err: No workflow command selected")
              /\ view' = "Overview"
              /\ UNCHANGED <<procVars, active_command, output_buffer, spawned,
                             via_menu, ctlVars>>
       ELSE run_workflow(available_workflows[selected_workflow_index + 1],
                         selected_spec, TRUE, "Overview")

\* Command output, Esc/q: leave only when no command is running
KeyOutputEsc ==
    /\ pc_ctl = "idle" /\ view = "CommandOutput"
    /\ view' = IF ~is_command_running THEN "Overview" ELSE view
    /\ UNCHANGED <<procVars, ret, specs, active_command, output_buffer,
                   selected_spec_index, available_workflows,
                   selected_workflow_index, spawned, via_menu, pc_ctl>>

\* Command output, c: cancel the running command
KeyOutputCancel ==
    /\ pc_ctl = "idle" /\ view = "CommandOutput"
    /\ IF is_command_running THEN cancel_command ELSE UNCHANGED vars

\* ---- App::poll_process_output, called at the top of every loop turn

\* `if let Some(ref mut handle) = self.process_handle {`
PollBegin ==
    /\ pc_ctl = "idle"
    /\ HasHandle
    /\ pc_ctl' = "poll"
    /\ UNCHANGED <<procVars, ret, specs, active_command, output_buffer, view,
                   selected_spec_index, available_workflows,
                   selected_workflow_index, spawned, via_menu>>

\* The match arms of the drain loop: the command after `output`.
CommandAfter(cmd, output) ==
    CASE output.type = "Exit"       -> OnCommand(cmd, complete(cmd, output.code))
      [] output.type = "Terminated" -> OnCommand(cmd, cancel(cmd))
      [] output.type = "Error"      -> OnCommand(cmd, fail(cmd, output.msg))
      [] OTHER                      -> cmd

\* The match arms of the drain loop: the output buffer after `output`.
BufferAfter(lines, output) ==
    CASE output.type = "Stdout" -> push_stdout(lines, <<"line", output.text>>)
      [] output.type = "Stderr" -> push_stderr(lines, <<"line", output.text>>)
      [] output.type = "Exit"   ->
           push_stdout(lines, <<"Process exited with code", output.code>>)
      [] output.type = "Error"  -> push_stderr(lines, <<"Error:", output.msg>>)
      [] OTHER                  -> lines

\* `while let Some(output) = handle.try_recv() { match output { .. } }`
PollDrain ==
    /\ pc_ctl = "poll"
    /\ chan # <<>>
    /\ received' = Append(received, Head(chan))
    /\ chan' = Tail(chan)
    /\ active_command' = CommandAfter(active_command, Head(chan))
    /\ output_buffer' = BufferAfter(output_buffer, Head(chan))
    /\ UNCHANGED <<child, exit_code, written, reader, log, has_log, running,
                   kills, waited, ret, specs, view, selected_spec_index,
                   available_workflows, selected_workflow_index, spawned,
                   via_menu, pc_ctl>>

\* try_recv returned None: the loop and the call end.
PollEnd ==
    /\ pc_ctl = "poll"
    /\ chan = <<>>
    /\ pc_ctl' = "idle"
    /\ UNCHANGED <<procVars, ret, specs, active_command, output_buffer, view,
                   selected_spec_index, available_workflows,
                   selected_workflow_index, spawned, via_menu>>

\* ------------------------------------------------- the specification list
\* Specification directories of the project (NNN-name, listed by number).
MaxSpecs == 2

\* SpecArtifacts: the four presence flags (the paths are not modelled).
AllArtifacts ==
    [has_spec : BOOLEAN, has_plan : BOOLEAN, has_tasks : BOOLEAN,
     has_research : BOOLEAN]

\* WorkflowPhase::from_artifacts: the match on
\* (has_spec, has_plan, has_tasks), arm by arm.
from_artifacts_by_research(a) ==
    IF a.has_research THEN "Implement" ELSE "Specify"

from_artifacts(a) ==
    CASE ~a.has_spec                               -> "Specify"
      [] a.has_spec /\ ~a.has_plan                 -> "Clarify"
      [] a.has_spec /\ a.has_plan /\ ~a.has_tasks  -> "Tasks"
      [] a.has_spec /\ a.has_plan /\ a.has_tasks   -> "Implement"

\* SpecService::discover_specs: one Specification per directory, with
\* SpecArtifacts::scan of the directory and the phase derived from it.
discover_specs == [i \in 1..Len(artifacts) |-> from_artifacts(artifacts[i])]

\* App::refresh_specs: the list is replaced when discovery succeeds and the
\* selection is pulled back inside it; a failed discovery leaves the list
\* (and an error message); the call returns Ok(()) either way.
RefreshSpecs ==
    /\ pc_ctl = "idle" /\ view = "Overview"
    /\ \E discovered \in BOOLEAN :
         IF discovered
           THEN /\ specs' = discover_specs
                /\ selected_spec_index' =
                     IF selected_spec_index >= Len(discover_specs)
                        /\ discover_specs # <<>>
                       THEN Len(discover_specs) - 1
                     ELSE selected_spec_index
                /\ ret' = Returned("refresh_specs", "Ok")
           ELSE /\ UNCHANGED <<specs, selected_spec_index>>
                /\ ret' = Returned("refresh_specs", "Ok")
    /\ UNCHANGED <<moreVars, mcpVars, procVars, active_command, output_buffer, view,
                   available_workflows, selected_workflow_index, spawned,
                   via_menu, pc_ctl, diskVars>>

\* ------------------------------------------------------ the git repository
\* Directories: the repository root (GitService.repo_path) and two places
\* for linked worktrees.
RepoPath == "/repo"
Paths == {"/repo", "/wt/a", "/wt/b"}
\* The paths in the order git sorts them.
PathOrder == <<"/repo", "/wt/a", "/wt/b">>
Rank(path) == CHOOSE i \in 1..Len(PathOrder) : PathOrder[i] = path
\* Branch names a caller may ask for; "ghost" resolves nowhere.
LocalBranches == {"main", "001-a"}
RemoteBranches == {"main", "002-b"}
BranchNames == {"main", "001-a", "002-b", "ghost"}

\* One record of git's worktree registry.  kind is "bare" (the repository
\* itself, when it is bare), "detached" or "branch".
GitRecord(path, kind, branch) == [path |-> path, kind |-> kind, branch |-> branch]

GitRecords ==
    {GitRecord(p, "bare", "") : p \in {RepoPath}}
    \cup {GitRecord(p, "detached", "") : p \in Paths}
    \cup {GitRecord(p, "branch", b) : p \in Paths,
                                      b \in LocalBranches \cup RemoteBranches}

\* What git guarantees of its registry: the repository comes first and the
\* linked worktrees follow it sorted by path, no two records share a path,
\* only the repository can be bare, and a branch is checked out in at most
\* one worktree.
ValidRegistry(reg) ==
    /\ Len(reg) >= 1
    /\ reg[1].path = RepoPath
    /\ \A i, j \in 1..Len(reg) :
         i # j => /\ reg[i].path # reg[j].path
                  /\ (reg[i].kind = "branch" /\ reg[j].kind = "branch")
                       => reg[i].branch # reg[j].branch
    /\ \A i \in 2..Len(reg) : reg[i].kind # "bare"
    /\ \A i, j \in 2..Len(reg) :
         i < j => Rank(reg[i].path) < Rank(reg[j].path)

ValidRegistries ==
    {reg \in UNION {[1..n -> GitRecords] : n \in 1..Cardinality(Paths)} :
       ValidRegistry(reg)}

\* ---- `git worktree list --porcelain`: one line is its keyword and its
\* argument ("worktree <path>", "HEAD <sha>", "branch refs/heads/<name>",
\* "bare", "detached", and the empty line that ends a record).
PorcelainLine(kind, arg) == [kind |-> kind, arg |-> arg]

RecordLines(r) ==
    <<PorcelainLine("worktree", r.path)>>
    \o (IF r.kind = "bare" THEN <<PorcelainLine("bare", "")>>
        ELSE IF r.kind = "detached"
          THEN <<PorcelainLine("HEAD", "sha"), PorcelainLine("detached", "")>>
        ELSE <<PorcelainLine("HEAD", "sha"), PorcelainLine("branch", r.branch)>>)
    \o <<PorcelainLine("", "")>>

RECURSIVE Porcelain(_)
Porcelain(reg) ==
    IF reg = <<>> THEN <<>> ELSE RecordLines(Head(reg)) \o Porcelain(Tail(reg))

\* ---- domain/worktree.rs
CleanStatus == [tag |-> "Clean"]
DirtyStatus(modified, staged, untracked) ==
    [tag |-> "Dirty", modified |-> modified, staged |-> staged,
     untracked |-> untracked]
UnknownStatus == [tag |-> "Unknown"]
is_dirty_never(status) == FALSE

is_dirty(status) == status.tag = "Dirty"

\* Worktree::new (the spec id derived from the branch is not modelled)
WorktreeNewNeverMain(path, branch, is_main) ==
    [path |-> path, branch |-> branch, status |-> UnknownStatus,
     is_main |-> FALSE]

WorktreeNew(path, branch, is_main) ==
    [path |-> path, branch |-> branch, status |-> UnknownStatus,
     is_main |-> is_main]

\* ---- GitService::list_worktrees
DetachedMarker == "(detached)"
\* Option::None of current_path and current_branch
None == "<none>"

ParserStart ==
    [worktrees |-> <<>>, current_path |-> None, current_branch |-> None,
     is_bare |-> FALSE]

\* "Save previous worktree if any": both options are taken, and the entry is
\* pushed when both were Some; the first entry pushed is main.
SavedTwice(st) ==
    IF st.current_path # None /\ st.current_branch # None
      THEN st.worktrees
           \o <<WorktreeNew(st.current_path, st.current_branch,
                            st.worktrees = <<>>),
                WorktreeNew(st.current_path, st.current_branch, FALSE)>>
    ELSE st.worktrees

Saved(st) ==
    IF st.current_path # None /\ st.current_branch # None
      THEN Append(st.worktrees,
                  WorktreeNew(st.current_path, st.current_branch,
                              st.worktrees = <<>>))
    ELSE st.worktrees

\* The arm of the loop body that sees a "detached" line.
DetachedArmDropsMarker(st) == [st EXCEPT !.current_branch = None]

DetachedArm(st) == [st EXCEPT !.current_branch = DetachedMarker]

\* One iteration of `for line in output_str.lines()`.
ParseLine(st, line) ==
    IF line.kind = "worktree"
      THEN [worktrees |-> Saved(st), current_path |-> line.arg,
            current_branch |-> None, is_bare |-> FALSE]
    ELSE IF line.kind = "branch"
      THEN [st EXCEPT !.current_branch = line.arg]
    ELSE IF line.kind = "bare"
      THEN [st EXCEPT !.is_bare = TRUE]
    ELSE IF line.kind = "detached"
      THEN DetachedArm(st)
    ELSE st

RECURSIVE ParseLines(_, _)
ParseLines(st, lines) ==
    IF lines = <<>> THEN st
    ELSE ParseLines(ParseLine(st, Head(lines)), Tail(lines))

\* "Don't forget the last worktree": pushed unless it is bare.
ParseEnd(st) == IF st.is_bare THEN st.worktrees ELSE Saved(st)

\* The Vec<Worktree> that list_worktrees returns for an output of git.
ParseWorktrees(output) == ParseEnd(ParseLines(ParserStart, output))

list_worktrees == ParseWorktrees(Porcelain(registry))

\* ---- `git status --porcelain`: a line is its characters; the first two
\* are the index and the worktree column, then a blank and the file name.
StatusLine(x, y) == <<x, y, " ", "f">>

\* The column pairs git prints: '?' comes only as "??", and a line has at
\* least one column set.
StatusColumns == {" ", "M", "A", "D"}
StatusPairs ==
    {<<x, y>> \in StatusColumns \X StatusColumns : ~(x = " " /\ y = " ")}
    \cup {<<"?", "?">>}
StatusLines == {StatusLine(xy[1], xy[2]) : xy \in StatusPairs}

\* Lines of status output in the worktree of SpecStatus.
MaxStatusLines == 2

\* The counters after one more line: the match of worktree_status, arm by
\* arm, in the order of the source.
CountedStagedOnly(c, line) == [c EXCEPT !.staged = @ + 1]

CountedModifiedOnly(c, line) == [c EXCEPT !.modified = @ + 1]

Counted(c, line) ==
    IF Len(line) >= 2
      THEN LET index == line[1]
               worktree == line[2]
           IN IF index = "?" /\ worktree = "?"
                THEN [c EXCEPT !.untracked = @ + 1]
              ELSE IF index # " " /\ worktree # " "
                THEN [c EXCEPT !.staged = @ + 1, !.modified = @ + 1]
              ELSE IF index # " " /\ index # "?"
                THEN [c EXCEPT !.staged = @ + 1]
              ELSE IF worktree # " " /\ worktree # "?"
                THEN [c EXCEPT !.modified = @ + 1]
              ELSE c
    ELSE c

RECURSIVE CountLines(_, _)
CountLines(c, lines) ==
    IF lines = <<>> THEN c
    ELSE CountLines(Counted(c, Head(lines)), Tail(lines))

\* GitService::worktree_status, as a result: [val, status].  `ran` is
\* whether `git status` exited with success.
StatusResult(val, status) == [val |-> val, status |-> status]

worktree_status(path, ran) ==
    IF path \notin disk THEN StatusResult("WorktreeNotFound", UnknownStatus)
    ELSE IF ~ran THEN StatusResult("Ok", UnknownStatus)
    ELSE IF status_out[path] = <<>> THEN StatusResult("Ok", CleanStatus)
    ELSE LET c == CountLines([modified |-> 0, staged |-> 0, untracked |-> 0],
                             status_out[path])
         IN StatusResult("Ok", DirtyStatus(c.modified, c.staged, c.untracked))

\* GitService::branch_exists: refs/heads/<branch>, then
\* refs/remotes/origin/<branch>.
branch_exists_always(branch) == TRUE

branch_exists(branch) ==
    IF branch \in LocalBranches THEN TRUE ELSE branch \in RemoteBranches

\* The last GitService call and what it returned: its arguments, "Ok" or
\* the name of the GitError, the worktrees returned (list, create) and the
\* status returned (by worktree_status) or consulted (by delete_worktree).
Args(branch, path, force) == [branch |-> branch, path |-> path, force |-> force]
NoArgs == Args("", "", FALSE)
GitReturned(op, args, val, worktrees, status) ==
    [op |-> op, args |-> args, val |-> val, worktrees |-> worktrees,
     status |-> status]

\* ---- the git commands that change the registry
\* `git worktree add <path> <branch>` refuses a path that exists and a
\* branch that is checked out in another worktree.
GitAddRefuses(path, branch) ==
    \/ path \in disk
    \/ \E i \in 1..Len(registry) :
         registry[i].kind = "branch" /\ registry[i].branch = branch

\* `git worktree remove [--force] <path>` refuses, without --force, a
\* worktree with modified or untracked files.
GitRemoveRefuses(path, force) == ~force /\ status_out[path] # <<>>

\* The registry with one more linked worktree, at its place in path order.
GitAdded(reg, rec) ==
    LET Before(r) == Rank(r.path) < Rank(rec.path)
        After(r) == Rank(r.path) > Rank(rec.path)
        linked == SubSeq(reg, 2, Len(reg))
    IN <<reg[1]>> \o SelectSeq(linked, Before) \o <<rec>>
       \o SelectSeq(linked, After)

RECURSIVE Without(_, _)
Without(reg, path) ==
    IF reg = <<>> THEN <<>>
    ELSE IF Head(reg).path = path THEN Without(Tail(reg), path)
    ELSE <<Head(reg)>> \o Without(Tail(reg), path)

\* ---- GitService calls
ListWorktrees ==
    /\ git_ret' = GitReturned("list_worktrees", NoArgs, "Ok",
                              list_worktrees, UnknownStatus)
    /\ UNCHANGED <<moreVars, mcpVars, procVars, ret, appVars, artifacts, registry, disk,
                   status_out>>

\* `existing.iter().any(|w| w.branch == branch)`
AnyBound(existing, branch) ==
    \E i \in 1..Len(existing) : existing[i].branch = branch

\* GitService::create_worktree
CreateWorktree(branch, path) ==
    /\ IF ~branch_exists(branch)
         THEN /\ git_ret' = GitReturned("create_worktree",
                                        Args(branch, path, FALSE), "BranchNotFound",
                                        <<>>, UnknownStatus)
              /\ UNCHANGED <<registry, disk, status_out>>
       ELSE IF AnyBound(list_worktrees, branch)
         THEN /\ git_ret' = GitReturned("create_worktree",
                                        Args(branch, path, FALSE), "WorktreeExists",
                                        <<>>, UnknownStatus)
              /\ UNCHANGED <<registry, disk, status_out>>
       ELSE IF path \in disk
         THEN /\ git_ret' = GitReturned("create_worktree",
                                        Args(branch, path, FALSE), "PathExists",
                                        <<>>, UnknownStatus)
              /\ UNCHANGED <<registry, disk, status_out>>
       ELSE IF GitAddRefuses(path, branch)
         THEN /\ git_ret' = GitReturned("create_worktree",
                                        Args(branch, path, FALSE), "Operation",
                                        <<>>, UnknownStatus)
              /\ UNCHANGED <<registry, disk, status_out>>
       ELSE /\ registry' = GitAdded(registry, GitRecord(path, "branch", branch))
            /\ disk' = disk \cup {path}
            /\ status_out' = [status_out EXCEPT ![path] = <<>>]
            /\ git_ret' = GitReturned("create_worktree",
                                      Args(branch, path, FALSE), "Ok",
                                      <<WorktreeNew(path, branch, FALSE)>>,
                                      UnknownStatus)
    /\ UNCHANGED <<moreVars, mcpVars, procVars, ret, appVars, artifacts>>

\* `worktrees.iter().find(|w| w.path == path)`: the index of the first
\* entry with this path, 0 when there is none.
Find(worktrees, path) ==
    IF \E i \in 1..Len(worktrees) : worktrees[i].path = path
      THEN CHOOSE i \in 1..Len(worktrees) :
             /\ worktrees[i].path = path
             /\ \A j \in 1..(i - 1) : worktrees[j].path # path
    ELSE 0

\* GitService::delete_worktree
GitDeleteWorktree(path, force) ==
    /\ \E ran \in BOOLEAN :
         LET worktrees == list_worktrees
             wt == Find(worktrees, path)
             status == worktree_status(path, ran)
             \* the status the call looked at, Unknown when it asked for none
             seen == IF wt = 0 THEN UnknownStatus
                     ELSE IF worktrees[wt].is_main \/ force THEN UnknownStatus
                     ELSE status.status
             Fail(e) ==
               /\ git_ret' = GitReturned("delete_worktree",
                                         Args("", path, force), e, <<>>, seen)
               /\ UNCHANGED <<registry, disk, status_out>>
         IN IF wt = 0 THEN Fail("WorktreeNotFound")
            ELSE IF worktrees[wt].is_main THEN Fail("CannotDeleteMain")
            ELSE IF ~force /\ status.val # "Ok" THEN Fail(status.val)
            ELSE IF ~force /\ is_dirty(status.status)
              THEN Fail("WorktreeDirty")
            ELSE IF GitRemoveRefuses(path, force) THEN Fail("Operation")
            ELSE /\ registry' = Without(registry, path)
                 /\ disk' = disk \ {path}
                 /\ status_out' = [status_out EXCEPT ![path] = <<>>]
                 /\ git_ret' = GitReturned("delete_worktree",
                                           Args("", path, force), "Ok",
                                           <<>>, seen)
    /\ UNCHANGED <<mcpVars, procVars, ret, appVars, artifacts>>

\* The call made from outside the application: the views keep their state.
DeleteWorktree(path, force) ==
    /\ GitDeleteWorktree(path, force)
    /\ UNCHANGED moreVars

\* GitService::worktree_status called on a path
WorktreeStatus(path) ==
    /\ \E ran \in BOOLEAN :
         LET r == worktree_status(path, ran)
         IN git_ret' = GitReturned("worktree_status",
                                    Args("", path, FALSE), r.val, <<>>,
                                    r.status)
    /\ UNCHANGED <<moreVars, mcpVars, procVars, ret, appVars, artifacts, registry, disk,
                   status_out>>

\* Files are edited, added or committed in a worktree: its status output
\* becomes one of these.
EditOutputs == {<<>>, <<StatusLine(" ", "M")>>}

EditWorktree(path, out) ==
    /\ \E i \in 1..Len(registry) :
         registry[i].path = path /\ registry[i].kind # "bare"
    /\ status_out[path] # out
    /\ status_out' = [status_out EXCEPT ![path] = out]
    /\ UNCHANGED <<moreVars, mcpVars, procVars, ret, appVars, artifacts, registry, disk,
                   git_ret>>

\* ----------------------------------------------------------- specifications
\* The projects the application is started in: one without specifications,
\* and one with a specification in each phase.
SpecLists == {<<>>, <<"Specify", "Clarify", "Tasks", "Implement">>}

\* ============================================ MCP client (services/mcp.rs)

\* Ids one client may draw, messages written on one connection before the
\* calls that write stop being made, and peers one client may spawn.
MaxIds == 4
MaxSent == 5
MaxConnects == 2

\* The absent id of a notification, the first value of the id counter, the
\* absent process handle, and the error codes the peer answers with.
NoId == 0
FirstId == 1
NoProcess == 0
INVALID_REQUEST == -32600
INTERNAL_ERROR == -32603
TOOL_EXECUTION_ERROR == -32000

\* JsonRpcRequest::new and JsonRpcRequest::notification.  A notification has
\* no id.
request_new(id, method) == [id |-> id, method |-> method]
notification(method) == [id |-> NoId, method |-> method]

Methods == {"initialize", "tools/list", "tools/call", "shutdown"}
NotificationMethods == {"notifications/initialized", "$/cancelRequest", "exit"}

\* JsonRpcError; NoError is the absent `error` member of a response.
JsonRpcError(code, message) == [code |-> code, message |-> message]
NoError == JsonRpcError(0, "")
PeerErrors == {JsonRpcError(INVALID_REQUEST, "Invalid request"),
               JsonRpcError(TOOL_EXECUTION_ERROR, "Tool failed")}

\* One line on the client's stdout pipe.  A JsonRpcResponse carries the id it
\* answers, a result ("valid": a value of the type the caller expects, "none":
\* absent) and an error; a garbage line is not a JSON-RPC response; EndOfStream
\* is what read_line gives once the peer has gone and the pipe is empty.
JsonRpcResponse(id, result, error) ==
    [kind |-> "response", id |-> id, result |-> result, error |-> error]
Garbage == [kind |-> "garbage", id |-> NoId, result |-> "none",
            error |-> NoError]
EndOfStream == [kind |-> "eof", id |-> NoId, result |-> "none",
                error |-> NoError]
ReplyLines(id) ==
    {JsonRpcResponse(id, r, e) : r \in {"none", "valid"},
                                 e \in {NoError} \cup PeerErrors}
      \cup {Garbage}

\* Result<_, McpError> of a call: [val, code, message]; code and message are
\* those of McpError::RpcError.
McpOk == [val |-> "Ok", code |-> 0, message |-> ""]
McpErr(val) == [val |-> val, code |-> 0, message |-> ""]
RpcError(code, message) == [val |-> "RpcError", code |-> code,
                            message |-> message]

\* JsonRpcResponse::is_error and JsonRpcResponse::into_result: a present
\* error wins over any result; otherwise the result, Null when absent.
is_error(response) == response.error # NoError

into_result_internal_error(response) ==
    IF is_error(response)
    THEN [res |-> RpcError(INTERNAL_ERROR, response.error.message),
          value |-> "none"]
    ELSE [res |-> McpOk, value |-> response.result]

into_result(response) ==
    IF is_error(response)
    THEN [res |-> RpcError(response.error.code, response.error.message),
          value |-> "none"]
    ELSE [res |-> McpOk, value |-> response.result]

\* serde_json::from_value into InitializeResult, ToolsListResult or
\* ToolResult: Null has none of the required members.
from_value_always(value) == TRUE

from_value(value) == value = "valid"

\* McpClient::new
client_new ==
    [process |-> NoProcess, stdin |-> FALSE, stdout_reader |-> FALSE,
     next_id |-> FirstId, initialized |-> FALSE]

\* McpClient::is_connected, McpClient::is_initialized
is_connected_never(c) == FALSE

is_connected(c) == c.process # NoProcess

is_initialized(c) == c.initialized

\* McpClient::next_request_id: fetch_add returns the old value and leaves
\* the counter one higher.
fetch_add_nothing(n) == n

fetch_add(n) == n + 1

next_request_id(c) ==
    [id |-> c.next_id, client |-> [c EXCEPT !.next_id = fetch_add(@)]]

\* The first half of send_request: NotConnected without both pipes, IoError
\* when writeln!/flush fail, which they do once the peer has exited and the
\* read end of its stdin is closed.  A peer that is alive takes the line,
\* whether or not it ever reads it.
write_always(c, p) == "Ok"

write(c, p) ==
    IF ~c.stdin \/ ~c.stdout_reader THEN "NotConnected"
    ELSE IF p.state = "dead" THEN "IoError"
    ELSE "Ok"

\* send_request reads a reply line only for a message that has an id.
has_id_never(request) == FALSE

has_id(request) == request.id # NoId

\* The second half of a request call, from the line read to the value the
\* `?` chain yields: serde_json::from_str(&line), into_result(), from_value().
\* At end of stream read_line returns Ok(0) and the empty line does not parse.
reply_result(line) ==
    IF line.kind # "response" THEN McpErr("DeserializationError")
    ELSE LET r == into_result(line)
         IN IF r.res.val # "Ok" THEN r.res
            ELSE IF from_value(r.value) THEN McpOk
            ELSE McpErr("DeserializationError")

\* What send_request yields for a request that is written but, having no id,
\* waits for no line: a response with neither result nor error.
Synthetic == JsonRpcResponse(NoId, "none", NoError)

McpReturned(op, res) ==
    [op |-> op, val |-> res.val, code |-> res.code, message |-> res.message]

\* McpClient::close: kill the child if there is one, release the handle and
\* both pipes, clear the initialized flag.  The id counter is kept.
closed_keeping_flag(c) ==
    [c EXCEPT !.process = NoProcess, !.stdin = FALSE,
              !.stdout_reader = FALSE]

closed(c) ==
    [c EXCEPT !.process = NoProcess, !.stdin = FALSE,
              !.stdout_reader = FALSE, !.initialized = FALSE]

killed(c, p) ==
    IF c.process # NoProcess THEN [p EXCEPT !.state = "dead"] ELSE p

RequestCalls == {"initialize", "list_tools", "call_tool", "call_workflow",
                 "shutdown", "drop"}
MethodOf(op) ==
    IF op = "initialize" THEN "initialize"
    ELSE IF op = "list_tools" THEN "tools/list"
    ELSE IF op \in {"call_tool", "call_workflow"} THEN "tools/call"
    ELSE "shutdown"

\* The tail of a request call once send_request has yielded `res` on client
\* state c, with `out` written so far on the connection and `box` left
\* unread:
\*   initialize  on success writes notifications/initialized and only then
\*               sets the flag;
\*   list_tools, call_tool, call_workflow  return the result;
\*   shutdown    ignores the result, writes the exit notification and, if
\*               that was written, clears the flag;
\*   drop        is shutdown with its result ignored, then close.
Finish(op, c, out, box, res) ==
    LET w == write(c, peer)
    IN /\ inbox' = IF op = "drop" THEN <<>> ELSE box
       /\ IF op = "initialize"
          THEN IF res.val # "Ok"
               THEN /\ client' = c
                    /\ sent' = out
                    /\ mcp_ret' = McpReturned(op, res)
               ELSE IF w # "Ok"
               THEN /\ client' = c
                    /\ sent' = out
                    /\ mcp_ret' = McpReturned(op, McpErr(w))
               ELSE /\ client' = [c EXCEPT !.initialized = TRUE]
                    /\ sent' =
                         Append(out, notification("notifications/initialized"))
                    /\ mcp_ret' = McpReturned(op, McpOk)
          ELSE IF op \in {"list_tools", "call_tool", "call_workflow"}
          THEN /\ client' = c
               /\ sent' = out
               /\ mcp_ret' = McpReturned(op, res)
          ELSE /\ sent' = IF w = "Ok" THEN Append(out, notification("exit"))
                          ELSE out
               /\ IF op = "shutdown"
                  THEN /\ client' = IF w = "Ok"
                                    THEN [c EXCEPT !.initialized = FALSE]
                                    ELSE c
                       /\ mcp_ret' = McpReturned(op, IF w = "Ok" THEN McpOk
                                                     ELSE McpErr(w))
                  ELSE /\ client' = closed(c)
                       /\ mcp_ret' = McpReturned(op, McpOk)
       /\ peer' = IF op = "drop" THEN killed(c, peer) ELSE peer
       /\ mcp_pc' = IF op = "drop" THEN "dropped" ELSE "idle"
       /\ UNCHANGED spawns

otherVars == <<procVars, ret, appVars, diskVars, moreVars>>

\* A request call from the draw of its id to the point where it waits for
\* the reply: the id is drawn when the request is built, before send_request
\* looks at the pipes.
Call(op) ==
    LET n == next_request_id(client)
        request == request_new(n.id, MethodOf(op))
        w == write(n.client, peer)
    IN IF w # "Ok"
       THEN Finish(op, n.client, sent, inbox, McpErr(w))
       ELSE IF has_id(request)
       THEN /\ client' = n.client
            /\ sent' = Append(sent, request)
            /\ mcp_pc' = op
            /\ UNCHANGED <<peer, spawns, inbox, mcp_ret>>
       ELSE Finish(op, n.client, Append(sent, request), inbox,
                   reply_result(Synthetic))

Room(k) == is_connected(client) => Len(sent) + k <= MaxSent

\* McpClient::connect
McpConnect ==
    /\ mcp_pc = "idle"
    /\ IF is_connected(client)
       THEN /\ mcp_ret' = McpReturned("connect", McpErr("AlreadyConnected"))
            /\ UNCHANGED <<client, peer, spawns, sent, inbox>>
       ELSE \E spawn_ok \in BOOLEAN :
              IF ~spawn_ok
              THEN /\ mcp_ret' = McpReturned("connect", McpErr("SpawnFailed"))
                   /\ UNCHANGED <<client, peer, spawns, sent, inbox>>
              ELSE /\ spawns < MaxConnects
                   /\ spawns' = spawns + 1
                   /\ client' = [client EXCEPT !.process = spawns + 1,
                                               !.stdin = TRUE,
                                               !.stdout_reader = TRUE]
                   /\ peer' = [state |-> "alive", replied |-> 0]
                   /\ sent' = <<>>
                   /\ inbox' = <<>>
                   /\ mcp_ret' = McpReturned("connect", McpOk)
    /\ UNCHANGED <<mcp_pc, otherVars>>

\* McpClient::initialize
McpInitialize ==
    /\ mcp_pc = "idle"
    /\ client.next_id <= MaxIds
    /\ Room(2)
    /\ Call("initialize")
    /\ UNCHANGED otherVars

\* list_tools, call_tool and call_workflow (which calls call_tool): the
\* initialized check comes before the request is built.
ToolCall(op) ==
    IF ~is_initialized(client)
    THEN /\ mcp_ret' = McpReturned(op, McpErr("NotInitialized"))
         /\ UNCHANGED <<client, peer, spawns, sent, inbox, mcp_pc>>
    ELSE /\ client.next_id <= MaxIds
         /\ Room(1)
         /\ Call(op)

McpListTools ==
    /\ mcp_pc = "idle"
    /\ ToolCall("list_tools")
    /\ UNCHANGED otherVars

McpCallTool ==
    /\ mcp_pc = "idle"
    /\ ToolCall("call_tool")
    /\ UNCHANGED otherVars

McpCallWorkflow ==
    /\ mcp_pc = "idle"
    /\ ToolCall("call_workflow")
    /\ UNCHANGED otherVars

\* McpClient::cancel_request: a notification, sent in any state.
McpCancelRequest ==
    /\ mcp_pc = "idle"
    /\ Room(1)
    /\ LET request == notification("$/cancelRequest")
           w == write(client, peer)
       IN /\ sent' = IF w = "Ok" THEN Append(sent, request) ELSE sent
          /\ mcp_ret' = McpReturned("cancel_request",
                                    IF w = "Ok" THEN McpOk ELSE McpErr(w))
    /\ UNCHANGED <<client, peer, spawns, inbox, mcp_pc, otherVars>>

\* McpClient::shutdown
McpShutdown ==
    /\ mcp_pc = "idle"
    /\ IF ~is_initialized(client)
       THEN /\ mcp_ret' = McpReturned("shutdown", McpOk)
            /\ UNCHANGED <<client, peer, spawns, sent, inbox, mcp_pc>>
       ELSE /\ client.next_id <= MaxIds
            /\ Call("shutdown")
    /\ UNCHANGED otherVars

\* McpClient::close
McpClose ==
    /\ mcp_pc = "idle"
    /\ client' = closed(client)
    /\ peer' = killed(client, peer)
    /\ inbox' = <<>>
    /\ mcp_ret' = McpReturned("close", McpOk)
    /\ UNCHANGED <<spawns, sent, mcp_pc, otherVars>>

\* Drop for McpClient: shutdown, its result ignored, then close.
McpDrop ==
    /\ mcp_pc = "idle"
    /\ IF ~is_initialized(client)
       THEN /\ client' = closed(client)
            /\ peer' = killed(client, peer)
            /\ inbox' = <<>>
            /\ mcp_pc' = "dropped"
            /\ mcp_ret' = McpReturned("drop", McpOk)
            /\ UNCHANGED <<spawns, sent>>
       ELSE Call("drop")
    /\ UNCHANGED otherVars

\* The read_line of send_request inside the call in progress: it takes the
\* next line of the pipe, sees end of stream when the pipe is empty and the
\* peer has gone, and blocks otherwise.
McpRead ==
    /\ mcp_pc \in RequestCalls
    /\ inbox # <<>> \/ peer.state = "dead"
    /\ LET line == IF inbox # <<>> THEN Head(inbox) ELSE EndOfStream
           box == IF inbox # <<>> THEN Tail(inbox) ELSE <<>>
       IN Finish(mcp_pc, client, sent, box, reply_result(line))
    /\ UNCHANGED otherVars

\* ---- the peer: the child process at the other end of the pipes.
NumRequests(out) == Cardinality({i \in 1..Len(out) : out[i].id # NoId})

NthRequest(out, n) ==
    LET idx == {i \in 1..Len(out) :
                  /\ out[i].id # NoId
                  /\ NumRequests(SubSeq(out, 1, i)) = n}
    IN out[CHOOSE i \in idx : TRUE]

\* The peer answers the oldest request it has not answered, with any line.
PeerReply ==
    /\ peer.state = "alive"
    /\ peer.replied < NumRequests(sent)
    /\ \E line \in ReplyLines(NthRequest(sent, peer.replied + 1).id) :
         inbox' = Append(inbox, line)
    /\ peer' = [peer EXCEPT !.replied = @ + 1]
    /\ UNCHANGED <<client, spawns, sent, mcp_pc, mcp_ret, otherVars>>

\* The peer stops answering while it stays alive.
PeerHang ==
    /\ peer.state = "alive"
    /\ peer' = [peer EXCEPT !.state = "hung"]
    /\ UNCHANGED <<client, spawns, sent, inbox, mcp_pc, mcp_ret, otherVars>>

\* The peer exits on its own.
PeerDie ==
    /\ peer.state \in {"alive", "hung"}
    /\ peer' = [peer EXCEPT !.state = "dead"]
    /\ UNCHANGED <<client, spawns, sent, inbox, mcp_pc, mcp_ret, otherVars>>

\* Lines an answering peer may have written ahead of the client's reads when
\* it also sends notifications.
MaxInbox == 2

\* A notification of the peer (progress, log message) as send_request sees
\* it: serde_json::from_str into JsonRpcResponse accepts the line, unknown
\* members are skipped and the absent id, result and error become None.
NotificationLine == JsonRpcResponse(NoId, "none", NoError)

\* The peer writes a notification of its own.
PeerNotify ==
    /\ peer.state = "alive"
    /\ Len(inbox) < MaxInbox
    /\ inbox' = Append(inbox, NotificationLine)
    /\ UNCHANGED <<client, peer, spawns, sent, mcp_pc, mcp_ret, otherVars>>

\* ================================= call_workflow arguments (services/mcp.rs)

\* WorkflowCommandType::tool_name
tool_name(command_type) ==
    IF command_type = "Specify" THEN "speckit.specify"
    ELSE IF command_type = "Clarify" THEN "speckit.clarify"
    ELSE IF command_type = "Plan" THEN "speckit.plan"
    ELSE IF command_type = "Tasks" THEN "speckit.tasks"
    ELSE "speckit.implement"

\* JSON values handed to call_workflow as extra_args: nothing, a value that
\* is no object, or an object, which is a function from its keys to values.
ArgKeys == {"spec_directory", "mode", "model"}
ArgValues == {"x", "y"}
SpecDirectories == {"/specs/001-a", "/specs/002-b"}
JsonObjects == UNION {[ks -> ArgValues] : ks \in SUBSET ArgKeys}
NoObject == [k \in {} |-> "x"]
ExtraArgs ==
    {[kind |-> "none", fields |-> NoObject],
     [kind |-> "scalar", fields |-> NoObject]}
      \cup {[kind |-> "object", fields |-> o] : o \in JsonObjects}

\* The loop `for (k, v) in extra_obj { base.insert(k, v) }`: insert replaces
\* the value of a key that is present.
insert_all_keeping(base, extra) ==
    [k \in DOMAIN base \cup DOMAIN extra |->
       IF k \in DOMAIN base THEN base[k] ELSE extra[k]]

insert_all(base, extra) ==
    [k \in DOMAIN base \cup DOMAIN extra |->
       IF k \in DOMAIN extra THEN extra[k] ELSE base[k]]

\* The arguments call_workflow hands to call_tool: the baseline object, with
\* the extra fields merged in when extra_args is an object.
baseline(spec_directory) == [k \in {"spec_directory"} |-> spec_directory]

workflow_arguments(spec_directory, extra) ==
    IF extra.kind = "object"
    THEN insert_all(baseline(spec_directory), extra.fields)
    ELSE baseline(spec_directory)

\* wf: the call and, once made, the request call_tool builds for it.
WfCall(command_type, spec_directory, extra, called, method, name, arguments) ==
    [command_type |-> command_type, spec_directory |-> spec_directory,
     extra |-> extra, called |-> called, method |-> method, name |-> name,
     arguments |-> arguments]

NoWfCall ==
    WfCall("Specify", "/specs/001-a", [kind |-> "none", fields |-> NoObject],
           FALSE, "", "", NoObject)

\* call_workflow on an initialized client, up to the request of call_tool.
CallWorkflowRequest ==
    /\ ~wf.called
    /\ wf' = WfCall(wf.command_type, wf.spec_directory, wf.extra, TRUE,
                    MethodOf("call_workflow"), tool_name(wf.command_type),
                    workflow_arguments(wf.spec_directory, wf.extra))
    /\ UNCHANGED <<procVars, ret, appVars, diskVars, mcpVars, uiVars, sid,
                   pushes>>

QuietWf == wf = NoWfCall

\* ============================================== SpecId (domain/spec.rs)

\* Strings are sequences of characters.  Besides ASCII digits, a letter, the
\* hyphen and the newline there is one decimal digit outside ASCII, the
\* Arabic-Indic three, which UTF-8 encodes in two bytes.
DigitChar == <<"0", "1", "2", "3", "4", "5", "6", "7", "8", "9">>
AsciiDigits == {DigitChar[i] : i \in 1..Len(DigitChar)}
ArabicThree == "u0663"
Newline == "\n"
Chars == {"0", "7", ArabicThree, "a", "-", Newline}

Utf8Len(c) == IF c = ArabicThree THEN 2 ELSE 1

RECURSIVE ByteLen(_)
ByteLen(s) == IF s = <<>> THEN 0 ELSE Utf8Len(Head(s)) + ByteLen(Tail(s))

\* format!("{:03}-{}", number, name) for a number below 1000.
Pad3(n) ==
    <<DigitChar[(n \div 100) + 1], DigitChar[((n \div 10) % 10) + 1],
      DigitChar[(n % 10) + 1]>>

spec_id_new(number, name) == Pad3(number) \o <<"-">> \o name

\* Regex ^(\d{3})-(.+)$ of the regex crate: \d is any Unicode decimal
\* digit, `.` is any character but the newline, ^ and $ are the ends of the
\* text.
RegexDigit(c) == c \in AsciiDigits \cup {ArabicThree}

is_match(s) ==
    /\ Len(s) >= 5
    /\ \A i \in 1..3 : RegexDigit(s[i])
    /\ s[4] = "-"
    /\ \A i \in 5..Len(s) : s[i] # Newline

\* SpecId::parse
spec_id_parse(s) == IF is_match(s) THEN "Ok" ELSE "InvalidId"

\* The byte slices self.0[..k] and self.0[k..]: the characters before and
\* after byte k, when byte k is a character boundary; the slice panics when
\* it is not.
CharsBefore(s, k) ==
    {n \in 0..Len(s) : ByteLen(SubSeq(s, 1, n)) = k}

\* str::parse::<u32> of a short text: ASCII digits only.
DigitValue(c) == CHOOSE d \in 0..9 : DigitChar[d + 1] = c

RECURSIVE Decimal(_)
Decimal(s) ==
    IF s = <<>> THEN 0
    ELSE 10 * Decimal(SubSeq(s, 1, Len(s) - 1)) + DigitValue(s[Len(s)])

\* SpecId::number: [val, number]
spec_id_number(s) ==
    IF CharsBefore(s, 3) = {} THEN [val |-> "panic", number |-> 0]
    ELSE LET n == CHOOSE n \in CharsBefore(s, 3) : TRUE
             prefix == SubSeq(s, 1, n)
         IN IF prefix # <<>> /\ \A i \in 1..n : prefix[i] \in AsciiDigits
            THEN [val |-> "Ok", number |-> Decimal(prefix)]
            ELSE [val |-> "Ok", number |-> 0]

\* SpecId::name: [val, name]
spec_id_name(s) ==
    IF ByteLen(s) > 4
    THEN IF CharsBefore(s, 4) = {} THEN [val |-> "panic", name |-> <<>>]
         ELSE LET n == CHOOSE n \in CharsBefore(s, 4) : TRUE
              IN [val |-> "Ok", name |-> SubSeq(s, n + 1, Len(s))]
    ELSE [val |-> "Ok", name |-> <<>>]

\* sid: how the id was made ("new" or "parse"), the inputs, the string of
\* the id, and what parse, number() and name() gave.
NumberSamples == {0, 1, 7, 42, 100, 999}
Slugs == {<<"a">>, <<"a", "-", "7">>, <<"7", "a">>}
MaxIdLen == 5
IdTexts == UNION {[1..n -> Chars] : n \in 0..MaxIdLen}

SpecIdCase(how, n, slug, text, done, parsed, number, name) ==
    [how |-> how, n |-> n, slug |-> slug, text |-> text, done |-> done,
     parsed |-> parsed, number |-> number, name |-> name]

NoNumber == [val |-> "none", number |-> 0]
NoName == [val |-> "none", name |-> <<>>]
NoSpecId == SpecIdCase("new", 0, <<"a">>, <<>>, FALSE, "none", NoNumber, NoName)

\* SpecId::new(n, slug), then parse of its string and the accessors.
SpecIdNewThenParse ==
    /\ ~sid.done
    /\ sid.how = "new"
    /\ LET text == spec_id_new(sid.n, sid.slug)
           ok == spec_id_parse(text) = "Ok"
       IN sid' = SpecIdCase("new", sid.n, sid.slug, text, TRUE,
                            spec_id_parse(text),
                            IF ok THEN spec_id_number(text) ELSE NoNumber,
                            IF ok THEN spec_id_name(text) ELSE NoName)
    /\ UNCHANGED <<procVars, ret, appVars, diskVars, mcpVars, uiVars, wf,
                   pushes>>

\* SpecId::parse of a string, then the accessors on the id.
SpecIdParse ==
    /\ ~sid.done
    /\ sid.how = "parse"
    /\ LET ok == spec_id_parse(sid.text) = "Ok"
       IN sid' = SpecIdCase("parse", sid.n, sid.slug, sid.text, TRUE,
                            spec_id_parse(sid.text),
                            IF ok THEN spec_id_number(sid.text) ELSE NoNumber,
                            IF ok THEN spec_id_name(sid.text) ELSE NoName)
    /\ UNCHANGED <<procVars, ret, appVars, diskVars, mcpVars, uiVars, wf,
                   pushes>>

QuietSid == sid = NoSpecId

\* ------------------------------------------- the worktree management view
\* WorktreeManagementState (ui/widgets/worktree_list.rs): the selection, the
\* deletion dialog and the path waiting for its answer (None when there is
\* none).
mgmt_new ==
    [selected_index |-> 0, showing_confirm |-> FALSE,
     confirm_yes_selected |-> FALSE, pending_delete |-> None]

saturating_sub(a, b) == IF a >= b THEN a - b ELSE 0

select_previous(s, count) ==
    IF s.selected_index > 0 THEN [s EXCEPT !.selected_index = @ - 1] ELSE s

select_next(s, count) ==
    IF s.selected_index < saturating_sub(count, 1)
      THEN [s EXCEPT !.selected_index = @ + 1]
    ELSE s

\* A request_delete that keeps the button the last dialog left selected.
request_delete_keeping(s, path) ==
    [s EXCEPT !.pending_delete = path, !.showing_confirm = TRUE]

request_delete(s, path) ==
    [s EXCEPT !.pending_delete = path, !.showing_confirm = TRUE,
              !.confirm_yes_selected = FALSE]

toggle_confirm_selection(s) ==
    [s EXCEPT !.confirm_yes_selected = ~@]

cancel_confirm(s) ==
    [s EXCEPT !.showing_confirm = FALSE, !.pending_delete = None,
              !.confirm_yes_selected = FALSE]

\* confirm_delete: the state it leaves and the Option<PathBuf> it returns.
\* `pending_delete.take()` hands the path out and leaves None behind.
confirm_delete(s) ==
    IF s.confirm_yes_selected
      THEN [state |-> [s EXCEPT !.pending_delete = None,
                                !.showing_confirm = FALSE,
                                !.confirm_yes_selected = FALSE],
            path |-> s.pending_delete]
    ELSE [state |-> cancel_confirm(s), path |-> None]

\* The last call on the view: its name, the path it was given and the path
\* it returned.
MgmtReturned(op, arg, value) == [op |-> op, arg |-> arg, value |-> value]

\* App.error_message
NoMessage == "<no message>"

\* ---- the methods of WorktreeManagementState called one by one
\* The longest list the selection is moved in.
MaxCount == 4

Dialog(op, arg, s, value) ==
    /\ mgmt' = s
    /\ mgmt_ret' = MgmtReturned(op, arg, value)
    /\ UNCHANGED <<app_worktrees, error_message>>

SelectPrevious ==
    /\ \E count \in 0..MaxCount :
         Dialog("select_previous", None, select_previous(mgmt, count), None)
    /\ UNCHANGED <<procVars, ret, appVars, diskVars, mcpVars, pureVars>>

SelectNext ==
    /\ \E count \in 0..MaxCount :
         Dialog("select_next", None, select_next(mgmt, count), None)
    /\ UNCHANGED <<procVars, ret, appVars, diskVars, mcpVars, pureVars>>

RequestDelete ==
    /\ \E path \in Paths :
         Dialog("request_delete", path, request_delete(mgmt, path), None)
    /\ UNCHANGED <<procVars, ret, appVars, diskVars, mcpVars, pureVars>>

ToggleConfirmSelection ==
    /\ Dialog("toggle_confirm_selection", None,
              toggle_confirm_selection(mgmt), None)
    /\ UNCHANGED <<procVars, ret, appVars, diskVars, mcpVars, pureVars>>

CancelConfirm ==
    /\ Dialog("cancel_confirm", None, cancel_confirm(mgmt), None)
    /\ UNCHANGED <<procVars, ret, appVars, diskVars, mcpVars, pureVars>>

ConfirmDelete ==
    /\ Dialog("confirm_delete", None, confirm_delete(mgmt).state,
              confirm_delete(mgmt).path)
    /\ UNCHANGED <<procVars, ret, appVars, diskVars, mcpVars, pureVars>>

\* ---- App: the keys of the worktree management view.  handle_key clears
\* the error message before it looks at the key.
\* App::selected_worktree: `worktrees.get(selected_index)`, 0 when the
\* index is outside the list.
selected_worktree ==
    IF mgmt.selected_index < Len(app_worktrees)
      THEN mgmt.selected_index + 1
    ELSE 0

\* App::open_worktree_management ('w' on the overview)
OpenWorktreeManagement ==
    /\ pc_ctl = "idle" /\ view = "Overview"
    /\ mgmt' = mgmt_new
    /\ view' = "WorktreeManagement"
    /\ error_message' = NoMessage
    /\ mgmt_ret' = MgmtReturned("open", None, None)
    /\ UNCHANGED <<app_worktrees, pureVars, procVars, ret, specs, active_command,
                   output_buffer, selected_spec_index, available_workflows,
                   selected_workflow_index, spawned, via_menu, pc_ctl,
                   diskVars, mcpVars>>

\* Esc or 'q'; Enter or Space on a selected worktree closes the view as well.
KeyManageClose ==
    /\ pc_ctl = "idle" /\ view = "WorktreeManagement"
    /\ ~mgmt.showing_confirm
    /\ mgmt' = mgmt_new
    /\ view' = "Overview"
    /\ error_message' = NoMessage
    /\ mgmt_ret' = MgmtReturned("close", None, None)
    /\ UNCHANGED <<app_worktrees, pureVars, procVars, ret, specs, active_command,
                   output_buffer, selected_spec_index, available_workflows,
                   selected_workflow_index, spawned, via_menu, pc_ctl,
                   diskVars, mcpVars>>

\* A key that touches nothing but the view's own state
ManageKey(key, s, message) ==
    /\ pc_ctl = "idle" /\ view = "WorktreeManagement"
    /\ mgmt' = s
    /\ error_message' = message
    /\ mgmt_ret' = MgmtReturned(key, None, None)
    /\ UNCHANGED <<app_worktrees, pureVars, procVars, ret, appVars, diskVars,
                   mcpVars>>

\* Up or 'k'
KeyManageUp ==
    /\ ~mgmt.showing_confirm
    /\ ManageKey("up", select_previous(mgmt, Len(app_worktrees)), NoMessage)

\* Down or 'j'
KeyManageDown ==
    /\ ~mgmt.showing_confirm
    /\ ManageKey("down", select_next(mgmt, Len(app_worktrees)), NoMessage)

\* 'd' or Delete: App::request_worktree_delete
KeyManageDelete ==
    /\ ~mgmt.showing_confirm
    /\ IF selected_worktree = 0
         THEN ManageKey("d", mgmt, NoMessage)
       ELSE IF app_worktrees[selected_worktree].is_main
         THEN ManageKey("d", mgmt, "Cannot delete the main worktree")
       ELSE ManageKey("d",
                      request_delete(mgmt, app_worktrees[selected_worktree].path),
                      NoMessage)

\* Left or 'h', Right or 'l' in the dialog
KeyConfirmLeft ==
    /\ mgmt.showing_confirm
    /\ ManageKey("left", [mgmt EXCEPT !.confirm_yes_selected = TRUE],
                 NoMessage)

KeyConfirmRight ==
    /\ mgmt.showing_confirm
    /\ ManageKey("right", [mgmt EXCEPT !.confirm_yes_selected = FALSE],
                 NoMessage)

\* Esc or 'n' in the dialog
KeyConfirmEsc ==
    /\ mgmt.showing_confirm
    /\ ManageKey("esc", cancel_confirm(mgmt), NoMessage)

\* App::delete_worktree, entered with the view's state s: it takes the
\* pending path; with none it fails before it reaches git; with one it
\* calls GitService::delete_worktree, and after Ok reloads the list and
\* pulls the selection back inside it.  The key handler shows the Err.
AppDeleteWorktree(key, s, force) ==
    /\ pc_ctl = "idle" /\ view = "WorktreeManagement"
    /\ mgmt_ret' = MgmtReturned(key, s.pending_delete, None)
    /\ IF s.pending_delete = None
         THEN /\ mgmt' = s
              /\ error_message' = "No worktree pending deletion"
              /\ UNCHANGED <<app_worktrees, procVars, ret, appVars, diskVars,
                             mcpVars>>
       ELSE /\ GitDeleteWorktree(s.pending_delete, force)
            /\ IF git_ret'.val = "Ok"
                 THEN LET reloaded == ParseWorktrees(Porcelain(registry'))
                      IN /\ app_worktrees' = reloaded
                         /\ mgmt' =
                              [s EXCEPT
                                 !.pending_delete = None,
                                 !.selected_index =
                                    IF @ >= Len(reloaded) /\ reloaded # <<>>
                                      THEN Len(reloaded) - 1
                                    ELSE @]
                         /\ error_message' = NoMessage
               ELSE /\ mgmt' = [s EXCEPT !.pending_delete = None]
                    /\ error_message' = "Failed to delete worktree"
                    /\ UNCHANGED app_worktrees
    /\ UNCHANGED pureVars

\* The dialog answered by a key: confirm_delete first, and App::delete_worktree
\* with force = false when it returned a path.
Answer(key, s) ==
    IF confirm_delete(s).path # None
      THEN AppDeleteWorktree(key, confirm_delete(s).state, FALSE)
    ELSE ManageKey(key, confirm_delete(s).state, NoMessage)

\* Enter or Space in the dialog
KeyConfirmEnter ==
    /\ mgmt.showing_confirm
    /\ Answer("enter", mgmt)

\* 'y' in the dialog: Yes is selected, then the same as Enter
KeyConfirmYes ==
    /\ mgmt.showing_confirm
    /\ Answer("y", [mgmt EXCEPT !.confirm_yes_selected = TRUE])

\* 'D': deletion with force, no dialog
KeyManageForceDelete ==
    /\ ~mgmt.showing_confirm
    /\ IF selected_worktree = 0
         THEN ManageKey("D", mgmt, NoMessage)
       ELSE IF app_worktrees[selected_worktree].is_main
         THEN ManageKey("D", mgmt, "Cannot delete the main worktree")
       ELSE AppDeleteWorktree(
              "D",
              [mgmt EXCEPT
                 !.pending_delete = app_worktrees[selected_worktree].path],
              TRUE)

\* 'r' or F5: App::refresh_worktrees
KeyManageRefresh ==
    /\ pc_ctl = "idle" /\ view = "WorktreeManagement"
    /\ ~mgmt.showing_confirm
    /\ app_worktrees' = list_worktrees
    /\ error_message' = NoMessage
    /\ mgmt_ret' = MgmtReturned("r", None, None)
    /\ UNCHANGED <<mgmt, pureVars, procVars, ret, appVars, diskVars, mcpVars>>

QuietUi ==
    /\ mgmt = mgmt_new
    /\ app_worktrees = <<>>
    /\ error_message = NoMessage
    /\ mgmt_ret = MgmtReturned("new", None, None)

\* ------------------------------------- OutputBuffer filled past its limit
\* The calls of push made on one buffer.
MaxPushes == 1003

\* One call of push: the lines are numbered in the order they are pushed,
\* odd ones on stdout and even ones on stderr.
BufferPush ==
    /\ pushes < MaxPushes
    /\ pushes' = pushes + 1
    /\ output_buffer' =
         push(output_buffer, pushes + 1,
              IF (pushes + 1) % 2 = 1 THEN "Stdout" ELSE "Stderr")
    /\ UNCHANGED <<procVars, ret, specs, active_command, view,
                   selected_spec_index, available_workflows,
                   selected_workflow_index, spawned, via_menu, pc_ctl,
                   diskVars, mcpVars, uiVars, wf, sid>>

QuietBuffer == pushes = 0

\* Nothing of the worktree management view, of call_workflow or of SpecId in
\* use.
QuietMore ==
    /\ QuietUi
    /\ QuietWf
    /\ QuietSid
    /\ QuietBuffer

\* No MCP client in use: a client as McpClient::new leaves it.
QuietMcp ==
    /\ client = client_new
    /\ peer = [state |-> "none", replied |-> 0]
    /\ spawns = 0
    /\ sent = <<>>
    /\ inbox = <<>>
    /\ mcp_pc = "idle"
    /\ mcp_ret = McpReturned("new", McpOk)

\* The project on disk while the model looks elsewhere: no specification
\* directories, a repository with its main worktree alone and clean.
QuietDisk ==
    /\ artifacts = <<>>
    /\ registry = <<GitRecord(RepoPath, "branch", "main")>>
    /\ disk = {RepoPath}
    /\ status_out = [p \in Paths |-> <<>>]
    /\ git_ret = GitReturned("new", NoArgs, "Ok", <<>>, UnknownStatus)

NoHandle ==
    /\ child = "none"
    /\ exit_code = NoCode
    /\ written = [s \in Streams |-> <<>>]
    /\ reader = [s \in Streams |-> IdleReader]
    /\ chan = <<>>
    /\ log = <<>>
    /\ has_log = FALSE
    /\ running = FALSE
    /\ received = <<>>
    /\ kills = 0
    /\ waited = FALSE

InitApp ==
    /\ specs = <<>>
    /\ active_command = NoCommand
    /\ output_buffer = <<>>
    /\ view = "Overview"
    /\ selected_spec_index = 0
    /\ available_workflows = <<>>
    /\ selected_workflow_index = 0
    /\ spawned = 0
    /\ via_menu = FALSE
    /\ pc_ctl = "idle"

\* App::new followed by App::init: no command, no handle, the discovered
\* specifications loaded.
Init ==
    /\ NoHandle
    /\ ret = Returned("init", "Ok")
    /\ specs \in SpecLists
    /\ active_command = NoCommand
    /\ output_buffer = <<>>
    /\ view = "Overview"
    /\ selected_spec_index = 0
    /\ available_workflows = <<>>
    /\ selected_workflow_index = 0
    /\ spawned = 0
    /\ via_menu = FALSE
    /\ pc_ctl = "idle"
    /\ QuietDisk
    /\ QuietMcp
    /\ QuietMore

\* The application while a command executes: the control thread starts,
\* cancels and polls; the child and the two readers run beside it.
Next ==
    \/ \E s \in Streams : ChildWrite(s) /\ UNCHANGED <<diskVars, mcpVars, moreVars>>
    \/ ChildExit /\ UNCHANGED <<diskVars, mcpVars, moreVars>>
    \/ \E s \in Streams : ReaderRead(s) /\ UNCHANGED <<diskVars, mcpVars, moreVars>>
    \/ \E s \in Streams : ReaderLog(s) /\ UNCHANGED <<diskVars, mcpVars, moreVars>>
    \/ \E s \in Streams : ReaderSend(s) /\ UNCHANGED <<diskVars, mcpVars, moreVars>>
    \/ \E ct \in CommandTypes : RunWorkflow(ct) /\ UNCHANGED <<diskVars, mcpVars, moreVars>>
    \/ KeyCancelCommand /\ UNCHANGED <<diskVars, mcpVars, moreVars>>
    \/ KeyOutputEsc /\ UNCHANGED <<diskVars, mcpVars, moreVars>>
    \/ KeyOutputCancel /\ UNCHANGED <<diskVars, mcpVars, moreVars>>
    \/ PollBegin /\ UNCHANGED <<diskVars, mcpVars, moreVars>>
    \/ PollDrain /\ UNCHANGED <<diskVars, mcpVars, moreVars>>
    \/ PollEnd /\ UNCHANGED <<diskVars, mcpVars, moreVars>>

Spec == Init /\ [][Next]_vars

\* The control thread alone, with every key of the overview, the workflow
\* menu and the output view: the child of a started command writes nothing
\* and does not exit.
NextMenu ==
    \/ KeyMoveUp /\ UNCHANGED <<diskVars, mcpVars, moreVars>>
    \/ KeyMoveDown /\ UNCHANGED <<diskVars, mcpVars, moreVars>>
    \/ KeyRunWorkflow /\ UNCHANGED <<diskVars, mcpVars, moreVars>>
    \/ KeyCancelCommand /\ UNCHANGED <<diskVars, mcpVars, moreVars>>
    \/ KeyMenuEsc /\ UNCHANGED <<diskVars, mcpVars, moreVars>>
    \/ KeyMenuUp /\ UNCHANGED <<diskVars, mcpVars, moreVars>>
    \/ KeyMenuDown /\ UNCHANGED <<diskVars, mcpVars, moreVars>>
    \/ KeyMenuEnter /\ UNCHANGED <<diskVars, mcpVars, moreVars>>
    \/ \E ct \in CommandTypes : RunWorkflow(ct) /\ UNCHANGED <<diskVars, mcpVars, moreVars>>
    \/ KeyOutputEsc /\ UNCHANGED <<diskVars, mcpVars, moreVars>>
    \/ KeyOutputCancel /\ UNCHANGED <<diskVars, mcpVars, moreVars>>

SpecMenu == Init /\ [][NextMenu]_vars

\* A caller holds the handle that spawn_workflow or spawn_command returned.
InitProc ==
    /\ child = "alive"
    /\ exit_code = NoCode
    /\ written = [s \in Streams |-> <<>>]
    /\ reader = [s \in Streams |-> FreshReader]
    /\ chan = <<>>
    /\ log = <<>>
    /\ has_log \in BOOLEAN
    /\ running = TRUE
    /\ received = <<>>
    /\ kills = 0
    /\ waited = FALSE
    /\ ret = Returned("spawn", "Ok")
    /\ InitApp
    /\ QuietDisk
    /\ QuietMcp
    /\ QuietMore

NextProc ==
    \/ \E s \in Streams : ChildWrite(s) /\ UNCHANGED <<diskVars, mcpVars, moreVars>>
    \/ ChildExit /\ UNCHANGED <<diskVars, mcpVars, moreVars>>
    \/ \E s \in Streams : ReaderRead(s) /\ UNCHANGED <<diskVars, mcpVars, moreVars>>
    \/ \E s \in Streams : ReaderLog(s) /\ UNCHANGED <<diskVars, mcpVars, moreVars>>
    \/ \E s \in Streams : ReaderSend(s) /\ UNCHANGED <<diskVars, mcpVars, moreVars>>
    \/ TryRecv /\ UNCHANGED <<diskVars, mcpVars, moreVars>>
    \/ Kill /\ UNCHANGED <<diskVars, mcpVars, moreVars>>
    \/ Wait /\ UNCHANGED <<diskVars, mcpVars, moreVars>>

SpecProc == InitProc /\ [][NextProc]_vars

\* poll_process_output on its own: a Running command whose handle's channel
\* holds any sequence of up to MaxEvents ProcessOutput values.  The variables
\* the drain loop does not read are at rest.
AnyEvents ==
    {Stdout(1), Stdout(2), Stderr(1), Stderr(2), Exit(0), Exit(1), Terminated,
     Error(ReadErrorText), Error("Broken pipe")}

InitPoll ==
    /\ child = "exited"
    /\ exit_code = 0
    /\ written = [s \in Streams |-> <<>>]
    /\ reader = [s \in Streams |-> IdleReader]
    /\ chan \in UNION {[1..n -> AnyEvents] : n \in 0..MaxEvents}
    /\ log = <<>>
    /\ has_log = TRUE
    /\ running = TRUE
    /\ received = <<>>
    /\ kills = 0
    /\ waited = FALSE
    /\ ret = Returned("run_workflow", "Ok")
    /\ specs = <<"Specify", "Clarify", "Tasks", "Implement">>
    /\ active_command = start(new(1, "Plan", 2))
    /\ output_buffer = <<>>
    /\ view = "CommandOutput"
    /\ selected_spec_index = 1
    /\ available_workflows = <<>>
    /\ selected_workflow_index = 0
    /\ spawned = 1
    /\ via_menu = FALSE
    /\ pc_ctl = "idle"
    /\ QuietDisk
    /\ QuietMcp
    /\ QuietMore

NextPoll ==
    \/ PollBegin /\ UNCHANGED <<diskVars, mcpVars, moreVars>>
    \/ PollDrain /\ UNCHANGED <<diskVars, mcpVars, moreVars>>
    \/ PollEnd /\ UNCHANGED <<diskVars, mcpVars, moreVars>>

SpecPoll == InitPoll /\ [][NextPoll]_vars

\* The specification list: App::new in a project with up to MaxSpecs
\* specification directories, in any artifact combination; App::init and
\* later refreshes load them.
InitPhase ==
    /\ NoHandle
    /\ ret = Returned("init", "Ok")
    /\ artifacts \in UNION {[1..n -> AllArtifacts] : n \in 0..MaxSpecs}
    /\ specs = <<>>
    /\ active_command = NoCommand
    /\ output_buffer = <<>>
    /\ view = "Overview"
    /\ selected_spec_index = 0
    /\ available_workflows = <<>>
    /\ selected_workflow_index = 0
    /\ spawned = 0
    /\ via_menu = FALSE
    /\ pc_ctl = "idle"
    /\ registry = <<GitRecord(RepoPath, "branch", "main")>>
    /\ disk = {RepoPath}
    /\ status_out = [p \in Paths |-> <<>>]
    /\ git_ret = GitReturned("new", NoArgs, "Ok", <<>>, UnknownStatus)
    /\ QuietMcp
    /\ QuietMore

NextPhase ==
    \/ RefreshSpecs
    \/ KeyMoveUp /\ UNCHANGED <<diskVars, mcpVars, moreVars>>
    \/ KeyMoveDown /\ UNCHANGED <<diskVars, mcpVars, moreVars>>
    \/ KeyRunWorkflow /\ UNCHANGED <<diskVars, mcpVars, moreVars>>
    \/ KeyMenuEsc /\ UNCHANGED <<diskVars, mcpVars, moreVars>>

SpecPhase == InitPhase /\ [][NextPhase]_vars

\* GitService on a repository in any state git allows: the worktrees are
\* clean or carry one change, and a directory that is no worktree may sit at
\* a free path.
InitGit ==
    /\ NoHandle
    /\ ret = Returned("init", "Ok")
    /\ InitApp
    /\ artifacts = <<>>
    /\ registry \in ValidRegistries
    /\ disk \in {d \in SUBSET Paths :
                   \A i \in 1..Len(registry) : registry[i].path \in d}
    /\ status_out \in
         {f \in [Paths -> EditOutputs] :
            \A p \in Paths :
              f[p] # <<>> =>
                \E i \in 1..Len(registry) :
                  registry[i].path = p /\ registry[i].kind # "bare"}
    /\ git_ret = GitReturned("new", NoArgs, "Ok", <<>>, UnknownStatus)
    /\ QuietMcp
    /\ QuietMore

NextGit ==
    \/ ListWorktrees
    \/ \E b \in BranchNames, p \in Paths : CreateWorktree(b, p)
    \/ \E p \in Paths, force \in BOOLEAN : DeleteWorktree(p, force)
    \/ \E p \in Paths : WorktreeStatus(p)
    \/ \E p \in Paths, out \in EditOutputs : EditWorktree(p, out)

SpecGit == InitGit /\ [][NextGit]_vars

\* worktree_status on its own: the main worktree of a repository, with any
\* status output of up to MaxStatusLines lines.
InitStatus ==
    /\ NoHandle
    /\ ret = Returned("init", "Ok")
    /\ InitApp
    /\ artifacts = <<>>
    /\ registry = <<GitRecord(RepoPath, "branch", "main")>>
    /\ disk = {RepoPath}
    /\ \E out \in UNION {[1..n -> StatusLines] : n \in 0..MaxStatusLines} :
         status_out = [p \in Paths |-> IF p = RepoPath THEN out ELSE <<>>]
    /\ git_ret = GitReturned("new", NoArgs, "Ok", <<>>, UnknownStatus)
    /\ QuietMcp
    /\ QuietMore

NextStatus == \E p \in Paths : WorktreeStatus(p)

SpecStatus == InitStatus /\ [][NextStatus]_vars


\* One McpClient from construction to drop, with its peer.
InitMcp ==
    /\ NoHandle
    /\ ret = Returned("init", "Ok")
    /\ InitApp
    /\ QuietDisk
    /\ QuietMcp
    /\ QuietMore

NextMcp ==
    \/ McpConnect
    \/ McpInitialize
    \/ McpListTools
    \/ McpCallTool
    \/ McpCallWorkflow
    \/ McpCancelRequest
    \/ McpShutdown
    \/ McpClose
    \/ McpDrop
    \/ McpRead
    \/ PeerReply
    \/ PeerHang
    \/ PeerDie

SpecMcp == InitMcp /\ [][NextMcp]_vars

\* The same client with a scheduler that lets every enabled step of the
\* client happen and lets a peer that is answering answer.
SpecMcpLive ==
    /\ SpecMcp
    /\ WF_vars(McpRead)
    /\ WF_vars(PeerReply)

\* The client with a peer that also sends notifications between its replies.
NextMcpNoisy ==
    \/ McpConnect
    \/ McpInitialize
    \/ McpListTools
    \/ McpCallTool
    \/ McpRead
    \/ PeerReply
    \/ PeerNotify
    \/ PeerDie

SpecMcpNoisy == InitMcp /\ [][NextMcpNoisy]_vars

\* call_workflow applied to every command type, directory and extra_args.
InitArgs ==
    /\ NoHandle
    /\ ret = Returned("init", "Ok")
    /\ InitApp
    /\ QuietDisk
    /\ QuietMcp
    /\ QuietUi
    /\ QuietSid
    /\ QuietBuffer
    /\ \E ct \in CommandTypes, dir \in SpecDirectories, extra \in ExtraArgs :
         wf = WfCall(ct, dir, extra, FALSE, "", "", NoObject)

NextArgs == CallWorkflowRequest

SpecArgs == InitArgs /\ [][NextArgs]_vars

\* SpecId::new on sample numbers and slugs, SpecId::parse on every string of
\* up to MaxIdLen characters.
InitSpecId ==
    /\ NoHandle
    /\ ret = Returned("init", "Ok")
    /\ InitApp
    /\ QuietDisk
    /\ QuietMcp
    /\ QuietUi
    /\ QuietWf
    /\ QuietBuffer
    /\ \/ \E n \in NumberSamples, slug \in Slugs :
            sid = SpecIdCase("new", n, slug, <<>>, FALSE, "none", NoNumber,
                             NoName)
       \/ \E text \in IdTexts :
            sid = SpecIdCase("parse", 0, <<"a">>, text, FALSE, "none",
                             NoNumber, NoName)

NextSpecId ==
    \/ SpecIdNewThenParse
    \/ SpecIdParse

SpecSpecId == InitSpecId /\ [][NextSpecId]_vars

\* The methods of WorktreeManagementState called in any order, on a state as
\* WorktreeManagementState::new leaves it.
InitDialog ==
    /\ NoHandle
    /\ ret = Returned("init", "Ok")
    /\ InitApp
    /\ QuietDisk
    /\ QuietMcp
    /\ QuietMore

NextDialog ==
    \/ SelectPrevious
    \/ SelectNext
    \/ RequestDelete
    \/ ToggleConfirmSelection
    \/ CancelConfirm
    \/ ConfirmDelete

SpecDialog == InitDialog /\ [][NextDialog]_vars

\* The worktree management view of the application over a repository in any
\* state git allows, the list loaded as App::init loads it.
InitManage ==
    /\ NoHandle
    /\ ret = Returned("init", "Ok")
    /\ InitApp
    /\ artifacts = <<>>
    /\ registry \in ValidRegistries
    /\ disk = {registry[i].path : i \in 1..Len(registry)}
    /\ status_out \in
         {f \in [Paths -> EditOutputs] :
            \A p \in Paths :
              f[p] # <<>> =>
                \E i \in 1..Len(registry) :
                  registry[i].path = p /\ registry[i].kind # "bare"}
    /\ git_ret = GitReturned("new", NoArgs, "Ok", <<>>, UnknownStatus)
    /\ QuietMcp
    /\ mgmt = mgmt_new
    /\ app_worktrees = list_worktrees
    /\ error_message = NoMessage
    /\ mgmt_ret = MgmtReturned("new", None, None)
    /\ QuietWf
    /\ QuietSid
    /\ QuietBuffer

NextManage ==
    \/ OpenWorktreeManagement
    \/ KeyManageClose
    \/ KeyManageUp
    \/ KeyManageDown
    \/ KeyManageDelete
    \/ KeyManageForceDelete
    \/ KeyManageRefresh
    \/ KeyConfirmLeft
    \/ KeyConfirmRight
    \/ KeyConfirmEnter
    \/ KeyConfirmYes
    \/ KeyConfirmEsc

SpecManage == InitManage /\ [][NextManage]_vars

\* An empty OutputBuffer and nothing but pushes.
InitBuffer ==
    /\ NoHandle
    /\ ret = Returned("init", "Ok")
    /\ InitApp
    /\ QuietDisk
    /\ QuietMcp
    /\ QuietMore

NextBuffer == BufferPush

SpecBuffer == InitBuffer /\ [][NextBuffer]_vars

\* SpecProc under a scheduler that lets the reader threads run and the
\* caller keep asking for events; nothing obliges the child to write or to
\* exit, nor the caller to kill or wait.
SpecProcLive ==
    /\ SpecProc
    /\ \A s \in Streams :
         /\ WF_vars(ReaderRead(s) /\ UNCHANGED <<diskVars, mcpVars, moreVars>>)
         /\ WF_vars(ReaderLog(s) /\ UNCHANGED <<diskVars, mcpVars, moreVars>>)
         /\ WF_vars(ReaderSend(s) /\ UNCHANGED <<diskVars, mcpVars, moreVars>>)
    /\ WF_vars(TryRecv /\ UNCHANGED <<diskVars, mcpVars, moreVars>>)

\* Spec under a scheduler that lets the reader threads run and the control
\* loop poll; nothing obliges the user to press a key.
SpecLive ==
    /\ Spec
    /\ \A s \in Streams :
         /\ WF_vars(ReaderRead(s) /\ UNCHANGED <<diskVars, mcpVars, moreVars>>)
         /\ WF_vars(ReaderLog(s) /\ UNCHANGED <<diskVars, mcpVars, moreVars>>)
         /\ WF_vars(ReaderSend(s) /\ UNCHANGED <<diskVars, mcpVars, moreVars>>)
    /\ WF_vars(PollBegin /\ UNCHANGED <<diskVars, mcpVars, moreVars>>)
    /\ WF_vars(PollDrain /\ UNCHANGED <<diskVars, mcpVars, moreVars>>)
    /\ WF_vars(PollEnd /\ UNCHANGED <<diskVars, mcpVars, moreVars>>)

\* ==================================================================== claims

IsPrefix(a, b) == Len(a) <= Len(b) /\ \A i \in 1..Len(a) : a[i] = b[i]

OfStream(ev, s) == ev.type = s

\* The texts of the line events of stream s in a sequence of events.
RECURSIVE EventTexts(_, _)
EventTexts(evs, s) ==
    IF evs = <<>> THEN <<>>
    ELSE IF OfStream(Head(evs), s)
           THEN <<Head(evs).text>> \o EventTexts(Tail(evs), s)
    ELSE EventTexts(Tail(evs), s)

\* The texts the child wrote to stream s.
WrittenTexts(s) == [i \in 1..Len(written[s]) |-> written[s][i].text]

\* The texts of the log lines tagged for stream s.
RECURSIVE LogTexts(_, _)
LogTexts(entries, s) ==
    IF entries = <<>> THEN <<>>
    ELSE IF Head(entries).tag = LogTag(s)
           THEN <<Head(entries).text>> \o LogTexts(Tail(entries), s)
    ELSE LogTexts(Tail(entries), s)

\* Both readers have left their loops and every event has been received:
\* nothing more can arrive on this handle's channel.
Quiescent == (\A s \in Streams : reader[s].pc = "done") /\ chan = <<>>

Delivered(types) == \E i \in 1..Len(received) : received[i].type \in types

RunWorkflowRequest == \E ct \in CommandTypes : RunWorkflow(ct)

AlreadyRunning == "Err: A command is already running"

\* C1: while the active command's ExecutionState is Running, a run_workflow
\* request returns the error "A command is already running", spawns no
\* process and leaves the active command and the whole handle (child, flag,
\* channel, readers, log) as they were.
C1_RunningRefusesSecond ==
    [][(active_command.state.tag = "Running" /\ RunWorkflowRequest)
         => /\ ret'.val = AlreadyRunning
            /\ spawned' = spawned
            /\ active_command' = active_command
            /\ UNCHANGED procVars]_vars

\* C1 witness: a request has been refused and the command is still Running.
C1_Witness ==
    /\ ret = Returned("run_workflow", AlreadyRunning)
    /\ active_command.state.tag = "Running"
    /\ spawned = 1

\* C2: once a command's state is Completed, Cancelled or Failed, no step
\* changes the state of that command.
C2_TerminalStateIsFinal ==
    [][(is_finished(active_command.state)
          /\ active_command'.id = active_command.id)
         => active_command'.state = active_command.state]_vars

\* C3: when a child that wrote only decodable stdout lines has exited with
\* code c, kill() and wait() were never called and the channel is drained,
\* the events received are those lines in order followed by one Exit(c).
C3_StdoutLinesThenExit ==
    (/\ child = "exited"
     /\ kills = 0
     /\ ~waited
     /\ written["Stderr"] = <<>>
     /\ \A i \in 1..Len(written["Stdout"]) : written["Stdout"][i].ok
     /\ Quiescent)
      => received = [i \in 1..Len(written["Stdout"]) |->
                       Stdout(written["Stdout"][i].text)]
                    \o <<Exit(exit_code)>>

\* C4: after kill() on a running handle is_running() is false, and once
\* nothing more can arrive a Terminated or an Exit event has been delivered.
C4_KillYieldsTerminatedOrExit ==
    /\ kills > 0 => ~is_running
    /\ (kills > 0 /\ ~waited /\ Quiescent)
         => Delivered({"Terminated", "Exit"})

\* C5: once a terminal event (Exit, Terminated, Error) has been received,
\* try_recv returns no further event.
C5_NothingAfterTerminalEvent ==
    [][Delivered({"Exit", "Terminated", "Error"})
         => received' = received]_vars

\* C6: poll_process_output draining one event while the command is Running:
\* Exit(code) -> Completed with that code, Terminated -> Cancelled,
\* Error(m) -> Failed with m, a Stdout/Stderr line -> state unchanged and
\* exactly that line, with its stream, appended to the output buffer (the
\* oldest line leaving when the buffer is at its cap).
C6_PollTransitions ==
    [][(PollDrain /\ active_command.state.tag = "Running")
         => LET ev == Head(chan)
                line == OutputLine(<<"line", ev.text>>, ev.type)
            IN  /\ ev.type = "Exit"
                     => active_command'.state = Completed(ev.code)
                /\ ev.type = "Terminated"
                     => active_command'.state = Cancelled
                /\ ev.type = "Error"
                     => active_command'.state = Failed(ev.msg)
                /\ ev.type \in Streams
                     => /\ active_command'.state = active_command.state
                        /\ output_buffer' =
                             IF Len(output_buffer) < MAX_OUTPUT_LINES
                               THEN Append(output_buffer, line)
                             ELSE Append(Tail(output_buffer), line)]_vars

\* C6 witness: a stdout line and then Exit(1) were drained from a Running
\* command, which is now Completed with code 1.
C6_Witness ==
    /\ Len(received) = 2
    /\ received[1] = Stdout(1)
    /\ received[2] = Exit(1)
    /\ active_command.state = Completed(1)
    /\ output_buffer[1] = OutputLine(<<"line", 1>>, "Stdout")

\* C7: for each stream, the lines received so far are a prefix of the lines
\* the child wrote to that stream, in the order written.
C7_PerStreamOrder ==
    \A s \in Streams : IsPrefix(EventTexts(received, s), WrittenTexts(s))

\* C7 witness: two stdout lines received in order with a stderr line ahead
\* of them.
C7_Witness ==
    /\ Len(received) = 3
    /\ received[1] = Stderr(1)
    /\ received[2] = Stdout(1)
    /\ received[3] = Stdout(2)

\* C8: in spawn_workflow every line event published on the channel has its
\* tagged line in the log already: the lines of a stream published so far
\* are a prefix of that stream's lines in the log.
C8_LoggedBeforePublished ==
    has_log =>
      \A s \in Streams :
        IsPrefix(EventTexts(received \o chan, s), LogTexts(log, s))

\* C9: kill() publishes no event, returns Ok and leaves the flag false; a
\* kill() after the first changes nothing at all (flag, child, channel,
\* readers, log), also when the child had exited on its own.
C9_KillIdempotent ==
    [][Kill => /\ ret'.val = "Ok"
               /\ ~running'
               /\ chan' = chan
               /\ received' = received
               /\ kills >= 1 => UNCHANGED <<child, exit_code, written, reader,
                                            chan, log, has_log, running,
                                            received, waited>>]_vars

\* C9 witness: kill() was called twice on a handle whose child had exited.
C9_Witness == kills = 2 /\ child = "exited" /\ ~running

\* The legal commands of each phase (specification, Workflow Phase Engine).
LegalCommands(phase) ==
    CASE phase = "Specify"   -> {"Specify"}
      [] phase = "Clarify"   -> {"Clarify", "Plan"}
      [] phase = "Tasks"     -> {"Tasks"}
      [] phase = "Implement" -> {"Implement"}

\* C10 as stated: run_workflow with a command type outside the legal set of
\* the specification's phase returns an error and spawns nothing.
C10_RunWorkflowRejectsIllegal ==
    [][\A ct \in CommandTypes :
         (RunWorkflow(ct) /\ ct \notin LegalCommands(specs[selected_spec]))
           => (ret'.val # "Ok" /\ spawned' = spawned)]_vars

\* C10 amended: a command started from the workflow menu
\* (run_selected_workflow) is for the selected specification and its type is
\* in the legal set of that specification's phase.
C10_MenuStartsLegalOnly ==
    [][(KeyMenuEnter /\ spawned' = spawned + 1)
         => /\ active_command'.spec_id = selected_spec
            /\ active_command'.command_type
                 \in LegalCommands(specs[selected_spec])]_vars

\* C10 witness: Plan, the second entry of the Clarify menu, was started from
\* the menu for the second specification.
C10_Witness ==
    /\ via_menu
    /\ active_command.state.tag = "Running"
    /\ active_command.command_type = "Plan"
    /\ active_command.spec_id = 2

\* ------------------------------------------------------------- C11 .. C20

\* The phase table of the specification, by presence flags.
PhaseTable(a) ==
    IF ~a.has_spec THEN "Specify"
    ELSE IF ~a.has_plan THEN "Clarify"
    ELSE IF ~a.has_tasks THEN "Tasks"
    ELSE "Implement"

\* C11: for every combination of the four presence flags, the phase that
\* refresh_specs records for a specification (WorkflowPhase::from_artifacts
\* of the scanned flags) is Specify without spec.md, Clarify with spec.md and
\* without plan.md, Tasks with both and without tasks.md, Implement with all
\* three; two directories that differ in research.md only get the same phase.
C11_PhaseFromArtifacts ==
    /\ \A a \in AllArtifacts :
         /\ from_artifacts(a) = PhaseTable(a)
         /\ from_artifacts([a EXCEPT !.has_research = ~@]) = from_artifacts(a)
    /\ (ret.op = "refresh_specs" /\ specs # <<>>) =>
         /\ Len(specs) = Len(artifacts)
         /\ \A i \in 1..Len(specs) : specs[i] = PhaseTable(artifacts[i])

\* refresh_specs has loaded a Tasks specification without research.md and an
\* Implement specification with it.
C11_Witness ==
    /\ ret.op = "refresh_specs"
    /\ specs = <<"Tasks", "Implement">>
    /\ ~artifacts[1].has_research
    /\ artifacts[2].has_research

ToSet(seq) == {seq[i] : i \in 1..Len(seq)}

\* C12: available_commands gives exactly {Specify}, {Clarify, Plan}, {Tasks}
\* and {Implement} for the four phases, so no phase has an empty set and each
\* of the five command types is legal in exactly one phase; the workflow
\* menu opened on a specification holds exactly the set of its phase.
C12_LegalCommandsPerPhase ==
    /\ \A ph \in Phases :
         /\ ToSet(available_commands(ph)) = LegalCommands(ph)
         /\ available_commands(ph) # <<>>
    /\ \A ct \in CommandTypes :
         Cardinality({ph \in Phases : ct \in ToSet(available_commands(ph))}) = 1
    /\ view = "WorkflowMenu" =>
         ToSet(available_workflows) = LegalCommands(specs[selected_spec])

\* The menu is open on a specification in phase Clarify and offers Clarify
\* and Plan.
C12_Witness ==
    /\ view = "WorkflowMenu"
    /\ specs[selected_spec] = "Clarify"
    /\ available_workflows = <<"Clarify", "Plan">>

\* This step is a GitService call `op` (a call writes git_ret; a step that
\* leaves git_ret alone is an edit in a worktree).
Called(op) == git_ret'.op = op /\ git_ret' # git_ret

\* The entries of the listing that are tagged main.
MainPaths(worktrees) ==
    {worktrees[i].path : i \in {j \in 1..Len(worktrees) : worktrees[j].is_main}}

ListedPaths(worktrees) == {worktrees[i].path : i \in 1..Len(worktrees)}

\* C13: delete_worktree on the worktree that list_worktrees tags main returns
\* CannotDeleteMain with force and without it and removes nothing.  The main
\* worktree of a repository (its first record, when the repository is not
\* bare) is the entry tagged main, and no create_worktree or delete_worktree
\* call takes it out of the registry or from its first place: it stays
\* listed.
C13_MainNeverDeleted ==
    /\ [](registry[1].kind # "bare"
            => MainPaths(list_worktrees) = {registry[1].path})
    /\ [][/\ (Called("delete_worktree")
              /\ git_ret'.args.path \in MainPaths(list_worktrees))
                => /\ git_ret'.val = "CannotDeleteMain"
                   /\ registry' = registry
                   /\ disk' = disk
          /\ registry[1].kind # "bare" => registry'[1] = registry[1]]_vars

\* A forced delete of the main worktree was refused, with linked worktrees
\* present and the main worktree dirty.
C13_Witness ==
    /\ git_ret.op = "delete_worktree"
    /\ git_ret.args.force
    /\ git_ret.val = "CannotDeleteMain"
    /\ git_ret.args.path = RepoPath
    /\ Len(registry) = 3
    /\ status_out[RepoPath] # <<>>

RegistryPaths(reg) == {reg[i].path : i \in 1..Len(reg)}

Resolves(branch) == branch \in LocalBranches \cup RemoteBranches

Bound(worktrees, branch) ==
    branch \in {worktrees[i].branch : i \in 1..Len(worktrees)}

\* C15: create_worktree returns BranchNotFound when the branch resolves
\* neither locally nor on the remote; WorktreeExists when it resolves and a
\* listed worktree is bound to it; PathExists when neither is so and the
\* destination exists (the three tests are made in this order).  Every
\* failure leaves the registry and the disk as they were.  On success the
\* worktree is registered and the descriptor returned is for this path and
\* branch, not main, with status Unknown.
C15_CreateFailures ==
    [][Called("create_worktree") =>
         LET branch == git_ret'.args.branch
             path == git_ret'.args.path
             existing == list_worktrees
         IN /\ ~Resolves(branch) => git_ret'.val = "BranchNotFound"
            /\ (Resolves(branch) /\ Bound(existing, branch))
                 => git_ret'.val = "WorktreeExists"
            /\ (Resolves(branch) /\ ~Bound(existing, branch) /\ path \in disk)
                 => git_ret'.val = "PathExists"
            /\ git_ret'.val # "Ok" => (registry' = registry /\ disk' = disk)
            /\ git_ret'.val = "Ok"
                 => /\ git_ret'.worktrees =
                         <<[path |-> path, branch |-> branch,
                            status |-> [tag |-> "Unknown"],
                            is_main |-> FALSE]>>
                    /\ Len(registry') = Len(registry) + 1
                    /\ \E i \in 1..Len(registry') :
                         registry'[i] = [path |-> path, kind |-> "branch",
                                         branch |-> branch]
                    /\ RegistryPaths(registry') =
                         RegistryPaths(registry) \cup {path}
                    /\ path \in disk']_vars

\* A worktree was created for a branch that exists on the remote only.
C15_Witness ==
    /\ git_ret.op = "create_worktree"
    /\ git_ret.val = "Ok"
    /\ git_ret.args.branch = "002-b"
    /\ Len(git_ret.worktrees) = 1
    /\ ~git_ret.worktrees[1].is_main
    /\ Len(registry) = 3

\* C16: a registry that starts with unique paths and at most one worktree
\* per branch is listed, after any create_worktree and delete_worktree
\* calls, without two entries of the same path and without two entries bound
\* to the same branch (entries with a detached head are bound to none).
C16_NoDuplicateWorktrees ==
    LET l == list_worktrees
    IN \A i, j \in 1..Len(l) :
         i # j => /\ l[i].path # l[j].path
                  /\ l[i].branch = l[j].branch => l[i].branch = DetachedMarker

\* Three worktrees are listed after a create_worktree call added the third.
C16_Witness ==
    /\ git_ret.op = "create_worktree"
    /\ git_ret.val = "Ok"
    /\ Len(list_worktrees) = 3
    /\ list_worktrees[3].branch = "001-a"
    /\ list_worktrees[2].branch = "main"

\* C17: list_worktrees tags as main the entry of the first record that git
\* lists, and no other entry.
C17_FirstRecordIsMain ==
    LET l == list_worktrees
    IN \A i \in 1..Len(l) : l[i].is_main <=> l[i].path = registry[1].path

\* C18: list_worktrees returns no entry for a bare record, and returns every
\* record with a detached head, under its path, with the branch "(detached)".
C18_BareDroppedDetachedMarked ==
    LET l == list_worktrees
    IN \A i \in 1..Len(registry) :
         /\ registry[i].kind = "bare" => registry[i].path \notin ListedPaths(l)
         /\ registry[i].kind = "detached"
              => \E j \in 1..Len(l) : /\ l[j].path = registry[i].path
                                      /\ l[j].branch = "(detached)"
         /\ registry[i].kind = "branch"
              => \E j \in 1..Len(l) : /\ l[j].path = registry[i].path
                                      /\ l[j].branch = registry[i].branch

\* list_worktrees returned two entries for a bare repository with a detached
\* worktree and a worktree on a branch.
C18_Witness ==
    /\ git_ret.op = "list_worktrees"
    /\ git_ret.worktrees = list_worktrees
    /\ Len(registry) = 3
    /\ registry[1].kind = "bare"
    /\ registry[2].kind = "detached"
    /\ Len(git_ret.worktrees) = 2
    /\ git_ret.worktrees[1].branch = "(detached)"

\* worktree_status has returned the classification of the status output of
\* the main worktree (`git status` ran).
StatusReturned ==
    /\ git_ret.op = "worktree_status"
    /\ git_ret.args.path = RepoPath
    /\ git_ret.val = "Ok"
    /\ git_ret.status.tag # "Unknown"

Counters(modified, staged, untracked) ==
    [tag |-> "Dirty", modified |-> modified, staged |-> staged,
     untracked |-> untracked]

\* The status line with index column x and worktree column y.
LineXY(x, y) == <<x, y, " ", "f">>

\* C19 as stated: the single line with index column M and a blank worktree
\* column gives one staged and one modified; " M" gives one modified; "??"
\* gives one untracked; no output gives Clean.
C19_StatusLineClasses ==
    StatusReturned =>
      LET out == status_out[RepoPath]
      IN /\ out = <<>> => git_ret.status = [tag |-> "Clean"]
         /\ out = <<LineXY("M", " ")>> => git_ret.status = Counters(1, 1, 0)
         /\ out = <<LineXY(" ", "M")>> => git_ret.status = Counters(1, 0, 0)
         /\ out = <<LineXY("?", "?")>> => git_ret.status = Counters(0, 0, 1)

\* C19, amended: the single line with index column M and a blank worktree
\* column gives one staged and nothing modified; " M" gives one modified
\* only; "??" gives one untracked only; no output gives Clean.
C19_IndexOnlyIsStagedOnly ==
    StatusReturned =>
      LET out == status_out[RepoPath]
      IN /\ out = <<>> => git_ret.status = [tag |-> "Clean"]
         /\ out = <<LineXY("M", " ")>> => git_ret.status = Counters(0, 1, 0)
         /\ out = <<LineXY(" ", "M")>> => git_ret.status = Counters(1, 0, 0)
         /\ out = <<LineXY("?", "?")>> => git_ret.status = Counters(0, 0, 1)

\* worktree_status has classified the single line "M  f".
C19_Witness ==
    /\ StatusReturned
    /\ status_out[RepoPath] = <<LineXY("M", " ")>>
    /\ git_ret.status = Counters(0, 1, 0)

\* The number of lines of an output whose columns satisfy Class.
CountOf(out, Class(_, _)) ==
    Cardinality({i \in 1..Len(out) : Class(out[i][1], out[i][2])})

BothUntracked(x, y) == x = "?" /\ y = "?"
BothSet(x, y) == x \notin {" ", "?"} /\ y \notin {" ", "?"}
IndexOnly(x, y) == x \notin {" ", "?"} /\ y = " "
WorktreeOnly(x, y) == x = " " /\ y \notin {" ", "?"}

\* C20: for every output of status lines, the Dirty result counts as
\* untracked the lines with '?' in both columns, as staged the lines with
\* both columns set plus the lines with the index column alone set, and as
\* modified the lines with both columns set plus the lines with the worktree
\* column alone set; every line is in one of the four classes.
C20_CountersPerClass ==
    StatusReturned =>
      LET out == status_out[RepoPath]
      IN /\ \A i \in 1..Len(out) :
              \/ BothUntracked(out[i][1], out[i][2])
              \/ BothSet(out[i][1], out[i][2])
              \/ IndexOnly(out[i][1], out[i][2])
              \/ WorktreeOnly(out[i][1], out[i][2])
         /\ out # <<>> =>
              git_ret.status =
                Counters(CountOf(out, BothSet) + CountOf(out, WorktreeOnly),
                         CountOf(out, BothSet) + CountOf(out, IndexOnly),
                         CountOf(out, BothUntracked))

\* worktree_status has classified an output with a line of each kind that
\* sets two counters and an untracked file.
C20_Witness ==
    /\ StatusReturned
    /\ status_out[RepoPath] = <<LineXY("A", "M"), LineXY("?", "?")>>
    /\ git_ret.status = Counters(1, 1, 1)

\* C21: worktree_status never returns an error: every call returns Ok, and
\* a call on a path that is not on disk returns the sentinel Unknown.
C21_StatusNeverErrs ==
    git_ret.op = "worktree_status" =>
      /\ git_ret.val = "Ok"
      /\ git_ret.args.path \notin disk => git_ret.status = UnknownStatus

\* ---- MCP client

Flags(c) == <<is_connected(c), is_initialized(c)>>

ToolCalls == {"list_tools", "call_tool", "call_workflow"}

ToolStep(op) ==
    IF op = "list_tools" THEN McpListTools
    ELSE IF op = "call_tool" THEN McpCallTool
    ELSE McpCallWorkflow

\* C22: initialize() on a client that is not connected returns NotConnected,
\* and list_tools, call_tool and call_workflow on a client that is not
\* initialized return NotInitialized; in both cases no message is written,
\* no call is left waiting, and is_connected() and is_initialized() are what
\* they were.
C22_GuardsWriteNothing ==
    [][/\ (McpInitialize /\ ~is_connected(client)) =>
            /\ mcp_ret' = McpReturned("initialize", McpErr("NotConnected"))
            /\ sent' = sent
            /\ mcp_pc' = "idle"
            /\ Flags(client') = Flags(client)
       /\ \A op \in ToolCalls :
            (ToolStep(op) /\ ~is_initialized(client)) =>
              /\ mcp_ret' = McpReturned(op, McpErr("NotInitialized"))
              /\ sent' = sent
              /\ mcp_pc' = "idle"
              /\ Flags(client') = Flags(client)]_vars

\* A client that was never connected has had initialize() fail (that call
\* drew the first id) and then call_tool fail, with nothing written.
C22_Witness ==
    /\ spawns = 0
    /\ client.next_id > FirstId
    /\ mcp_ret = McpReturned("call_tool", McpErr("NotInitialized"))
    /\ sent = <<>>
    /\ Flags(client) = <<FALSE, FALSE>>

\* The line the read_line of the waiting call takes next.
NextReply == IF inbox # <<>> THEN Head(inbox) ELSE EndOfStream

Successful(line) ==
    line.kind = "response" /\ line.error = NoError /\ line.result = "valid"

InitializedNote == notification("notifications/initialized")

\* A step in which initialize() returns: at once, or from its read.
InitializeReturns ==
    /\ mcp_pc' = "idle"
    /\ \/ McpInitialize
       \/ mcp_pc = "initialize" /\ McpRead

\* C23: the initialized flag is set only in the step of initialize() that
\* has read a reply with a valid result and no error to the initialize
\* request written last, and that then writes the initialized notification
\* as the next message; an initialize() that returns an error (request not
\* written, RPC error in the reply, reply or result that does not parse) has
\* written no notification and leaves the flag as it was, so false stays
\* false; hence an initialized client has its initialize request and, after
\* it, the notification on the wire.
C23_InitializedAfterHandshake ==
    /\ [](is_initialized(client) =>
            \E i, j \in 1..Len(sent) :
              /\ i < j
              /\ sent[i].method = "initialize" /\ sent[i].id # NoId
              /\ sent[j] = InitializedNote)
    /\ [][/\ (~is_initialized(client) /\ is_initialized(client')) =>
               /\ mcp_pc = "initialize" /\ McpRead
               /\ sent # <<>>
               /\ sent[Len(sent)].method = "initialize"
               /\ sent[Len(sent)].id # NoId
               /\ Successful(NextReply)
               /\ NextReply.id = sent[Len(sent)].id
               /\ sent' = Append(sent, InitializedNote)
               /\ mcp_ret' = McpReturned("initialize", McpOk)
          /\ (InitializeReturns /\ mcp_ret'.val # "Ok") =>
               /\ sent' = sent
               /\ is_initialized(client') = is_initialized(client)
          /\ (mcp_pc = "initialize" /\ McpRead /\ ~Successful(NextReply)) =>
               /\ mcp_ret'.op = "initialize"
               /\ mcp_ret'.val \in {"RpcError", "DeserializationError"}
               /\ mcp_ret'.val = "RpcError" <=> is_error(NextReply)]_vars

\* A first initialize() failed after its request was written and sent no
\* notification; a second one on the same connection succeeded and set the
\* flag after writing the notification.
C23_Witness ==
    /\ is_initialized(client)
    /\ mcp_ret = McpReturned("initialize", McpOk)
    /\ Len(sent) = 3
    /\ sent[1].method = "initialize"
    /\ sent[2].method = "initialize"
    /\ sent[3] = InitializedNote

\* C24: close() and shutdown() return without error from every state; when
\* close() has returned the client is neither connected nor initialized,
\* and when shutdown() has returned it is not initialized.
C24_CloseShutdownNeverFail ==
    /\ mcp_ret.op = "close" =>
         /\ mcp_ret.val = "Ok"
         /\ ~is_connected(client)
         /\ ~is_initialized(client)
    /\ mcp_ret.op = "shutdown" =>
         /\ mcp_ret.val = "Ok"
         /\ ~is_initialized(client)

\* C25: a drop of the client that has begun comes to its end, and at its end
\* the child is not running and the process handle and both pipes are
\* released.
C25_DropTerminates ==
    /\ [](mcp_pc = "dropped" =>
            /\ peer.state \in {"none", "dead"}
            /\ client.process = NoProcess
            /\ ~client.stdin
            /\ ~client.stdout_reader)
    /\ (mcp_pc = "drop") ~> (mcp_pc = "dropped")

RequestIndices(out) == {i \in 1..Len(out) : out[i].id # NoId}

IdsIncrease(out) ==
    \A i, j \in RequestIndices(out) : i < j => out[i].id < out[j].id

NoIdOnNotifications(out) ==
    \A i \in 1..Len(out) :
      /\ out[i].method \in NotificationMethods => out[i].id = NoId
      /\ out[i].method \in Methods => out[i].id # NoId

\* C26 (as stated): on a connection the first request written carries id 1,
\* every later request carries an id greater than those before it, and
\* notifications carry no id.
C26_FirstRequestHasIdOne ==
    /\ RequestIndices(sent) # {} =>
         \A i \in RequestIndices(sent) :
           (\A j \in RequestIndices(sent) : i <= j) => sent[i].id = FirstId
    /\ IdsIncrease(sent)
    /\ NoIdOnNotifications(sent)

\* C26 (amended): the ids come from one counter per client, which starts at
\* 1 and only grows; a request written carries the value the counter had when
\* the request was built and the counter is higher afterwards, so on a
\* connection the ids of the requests increase strictly, no id is used twice
\* by a client, and the first request of a connection carries an id of at
\* least 1; notifications carry no id.
C26_IdsFromClientCounter ==
    /\ [](/\ IdsIncrease(sent)
          /\ NoIdOnNotifications(sent)
          /\ \A i \in RequestIndices(sent) :
               FirstId <= sent[i].id /\ sent[i].id < client.next_id)
    /\ [][/\ client'.next_id >= client.next_id
          /\ (RequestIndices(sent') # RequestIndices(sent)
                /\ Len(sent') > Len(sent)) =>
               \E i \in (Len(sent) + 1)..Len(sent') :
                 /\ sent'[i].id = client.next_id
                 /\ client'.next_id > client.next_id
                 /\ RequestIndices(sent') = RequestIndices(sent) \cup {i}]_vars

\* The first request written on a connection carries id 2, because an
\* initialize() made before connect() drew id 1, and a later request of the
\* connection carries id 3.
C26_Witness ==
    /\ spawns = 1
    /\ Len(sent) >= 3
    /\ sent[1] = request_new(2, "initialize")
    /\ \E j \in 2..Len(sent) : sent[j].id = 3

\* Reply lines the client has taken from the pipe on this connection, and
\* requests written whose reply it has not taken.
Consumed == peer.replied - Len(inbox)
Outstanding == NumRequests(sent) - Consumed

NoCallWaiting == mcp_pc \in {"idle", "dropped"}

C28_ErrorReplyIsRpcError ==
    [][\A op \in {"initialize"} \cup ToolCalls :
         (mcp_pc = op /\ McpRead /\ inbox # <<>> /\ is_error(Head(inbox))) =>
           /\ Head(inbox).result \in {"none", "valid"}
           /\ mcp_ret' = McpReturned(op, RpcError(Head(inbox).error.code,
                                                  Head(inbox).error.message))
           /\ mcp_pc' = "idle"
           /\ sent' = sent
           /\ client' = client]_vars

\* list_tools has returned the RpcError of an error reply of the peer.
C28_Witness ==
    /\ mcp_ret = McpReturned("list_tools",
                             RpcError(INVALID_REQUEST, "Invalid request"))
    /\ is_initialized(client)
    /\ peer.replied = 2
    /\ inbox = <<>>
    /\ mcp_pc = "idle"

\* C29: connect() on a client that holds a process returns AlreadyConnected,
\* spawns no process, and leaves the process handle, the pipes with what is
\* on them, the peer and the initialized flag as they were.
C29_ConnectTwice ==
    [][(McpConnect /\ client.process # NoProcess) =>
         /\ mcp_ret' = McpReturned("connect", McpErr("AlreadyConnected"))
         /\ spawns' = spawns
         /\ client' = client
         /\ peer' = peer
         /\ sent' = sent
         /\ inbox' = inbox]_vars

\* connect() has been refused on an initialized client, with the one peer
\* ever spawned still alive.
C29_Witness ==
    /\ mcp_ret = McpReturned("connect", McpErr("AlreadyConnected"))
    /\ spawns = 1
    /\ client.process = 1
    /\ is_initialized(client)
    /\ peer.state = "alive"

\* A step in which shutdown() returns: at once, or from its read.
ShutdownReturns ==
    /\ mcp_pc' = "idle"
    /\ \/ McpShutdown
       \/ mcp_pc = "shutdown" /\ McpRead

\* C30: when shutdown() returns on an initialized client the last two
\* messages written are the shutdown request and, after it, the exit
\* notification, whatever the reply to the request was, and the client is
\* no longer initialized; shutdown() on a client that is not initialized
\* writes nothing.
C30_ShutdownThenExit ==
    [][/\ (ShutdownReturns /\ is_initialized(client)) =>
            /\ ~is_initialized(client')
            /\ Len(sent') >= 2
            /\ sent'[Len(sent') - 1].method = "shutdown"
            /\ sent'[Len(sent') - 1].id # NoId
            /\ sent'[Len(sent')] = notification("exit")
       /\ (McpShutdown /\ ~is_initialized(client)) =>
            /\ sent' = sent
            /\ mcp_pc' = "idle"]_vars

\* C38: in every state of the client, is_initialized() implies
\* is_connected(), and an initialized client holds both pipes.
C38_InitializedImpliesConnected ==
    is_initialized(client) =>
      /\ is_connected(client)
      /\ client.stdin
      /\ client.stdout_reader

\* An initialized, connected client on its second connection, whose last
\* call (a shutdown after the peer exited) failed.
C38_Witness ==
    /\ is_initialized(client)
    /\ is_connected(client)
    /\ spawns = 2
    /\ mcp_ret = McpReturned("shutdown", McpErr("IoError"))

\* C39: every response that the read of a waiting call takes from the pipe
\* and hands to the call carries the id of the request that call wrote.
C39_ResponseMatchesRequest ==
    [][(McpRead /\ inbox # <<>> /\ Head(inbox).kind = "response") =>
         Head(inbox).id = sent[Len(sent)].id]_vars

\* ---- call_workflow, SpecId

ToolNames ==
    [Specify |-> "speckit.specify", Clarify |-> "speckit.clarify",
     Plan |-> "speckit.plan", Tasks |-> "speckit.tasks",
     Implement |-> "speckit.implement"]

\* C31: the request of call_workflow is tools/call with the tool name of the
\* command type, and its arguments have the key spec_directory and every key
\* of the caller's object and no other; each caller key carries the caller's
\* value, spec_directory included, and spec_directory carries the directory
\* when the caller does not give it.
C31_ArgumentsMerged ==
    wf.called =>
      LET given == IF wf.extra.kind = "object" THEN wf.extra.fields
                   ELSE NoObject
      IN /\ wf.method = "tools/call"
         /\ wf.name = ToolNames[wf.command_type]
         /\ DOMAIN wf.arguments = {"spec_directory"} \cup DOMAIN given
         /\ \A k \in DOMAIN given : wf.arguments[k] = given[k]
         /\ "spec_directory" \notin DOMAIN given =>
              wf.arguments["spec_directory"] = wf.spec_directory

\* call_workflow was called with an object that gives spec_directory and one
\* more key: the caller's spec_directory has replaced the baseline.
C31_Witness ==
    /\ wf.called
    /\ wf.command_type = "Plan"
    /\ wf.spec_directory = "/specs/001-a"
    /\ wf.extra.kind = "object"
    /\ DOMAIN wf.extra.fields = {"spec_directory", "mode"}
    /\ wf.arguments["spec_directory"] = "x"
    /\ wf.arguments["mode"] = "y"

\* Three ASCII digits, a hyphen and a non-empty name.
WellFormedId(text) ==
    /\ Len(text) >= 5
    /\ \A i \in 1..3 : text[i] \in AsciiDigits
    /\ text[4] = "-"

\* C32: parse of the string of SpecId::new(n, slug) succeeds and gives an id
\* whose number() is n and whose name() is slug; a string that does not
\* start with three digits, a hyphen and a non-empty name is rejected with
\* InvalidId.
C32_RoundTripAndRejection ==
    sid.done =>
      /\ sid.how = "new" =>
           /\ sid.parsed = "Ok"
           /\ sid.number = [val |-> "Ok", number |-> sid.n]
           /\ sid.name = [val |-> "Ok", name |-> sid.slug]
      /\ (sid.how = "parse" /\ ~WellFormedId(sid.text)) =>
           sid.parsed = "InvalidId"

\* ---- the worktree management view

\* C37: a pending path is set whenever the dialog shows; request_delete
\* opens the dialog on its path with No selected; confirm_delete returns the
\* pending path when Yes is selected and nothing otherwise; confirm_delete
\* and cancel_confirm leave the dialog closed with no pending path.
DialogHasPath == mgmt.showing_confirm => mgmt.pending_delete # None

C37_DialogProtocol ==
    /\ []DialogHasPath
    /\ [][/\ RequestDelete =>
               /\ mgmt'.showing_confirm
               /\ ~mgmt'.confirm_yes_selected
               /\ mgmt'.pending_delete = mgmt_ret'.arg
          /\ ConfirmDelete =>
               /\ mgmt_ret'.value = IF mgmt.confirm_yes_selected
                                      THEN mgmt.pending_delete
                                    ELSE None
               /\ ~mgmt'.showing_confirm
               /\ mgmt'.pending_delete = None
          /\ CancelConfirm =>
               /\ ~mgmt'.showing_confirm
               /\ mgmt'.pending_delete = None]_vars

\* Yes was left selected by an earlier toggle, a deletion was requested and
\* answered Yes after a toggle: confirm_delete has returned the path and
\* closed the dialog.
C37_Witness ==
    /\ mgmt_ret = MgmtReturned("confirm_delete", None, "/wt/a")
    /\ ~mgmt.showing_confirm
    /\ mgmt.pending_delete = None
    /\ ~mgmt.confirm_yes_selected

\* The dialog is answered with Yes: Enter or Space with Yes selected, or 'y'.
ConfirmedYes ==
    \/ KeyConfirmEnter /\ mgmt.confirm_yes_selected
    \/ KeyConfirmYes

\* C36: when the dialog of a requested deletion is answered with Yes,
\* GitService::delete_worktree is called with force = false on the path that
\* was requested.
C36_ConfirmedDeleteReachesGit ==
    [][ConfirmedYes =>
         /\ git_ret'.op = "delete_worktree"
         /\ git_ret'.args = Args("", mgmt.pending_delete, FALSE)]_vars

\* ---- OutputBuffer

\* C40: after any number of pushes the buffer holds at most 1000 lines, and
\* they are the lines pushed last, in the order they were pushed.
C40_BufferKeepsNewest ==
    LET n == Len(output_buffer)
    IN /\ n <= 1000
       /\ n = IF pushes < 1000 THEN pushes ELSE 1000
       /\ \A i \in 1..n : output_buffer[i].content = pushes - n + i

\* Two lines more than the buffer holds were pushed: lines 1 and 2 are gone.
C40_Witness ==
    /\ pushes = 1002
    /\ Len(output_buffer) = 1000
    /\ output_buffer[1].content = 3
    /\ output_buffer[1000].content = 1002

\* ---- the readers and the flag

\* Line events of stream s published so far: still in the channel or
\* already received.
LinesOf(events, s) ==
    Cardinality({i \in 1..Len(events) : events[i].type = s})

Published(s) == LinesOf(received, s) + LinesOf(chan, s)

\* A line the reader holds past its flag check and has not sent yet.
InFlight(s) ==
    IF reader[s].pc \in {"log", "send"} /\ reader[s].cur.ok THEN 1 ELSE 0

PublishedBound ==
    [s \in Streams |-> Published(s) + InFlight(s)]

\* C33: once kill() has cleared the flag, a reader publishes nothing but the
\* line it held past its flag check, and its next pass of the loop is its
\* last.
C33_OneMoreLineAfterKill ==
    [][kills > 0 =>
         \A s \in Streams :
           /\ PublishedBound'[s] <= PublishedBound[s]
           /\ (reader[s].pc = "read" /\ reader'[s] # reader[s]) =>
                reader'[s].pc = "done"]_vars

\* kill() came while the stdout reader held line 1 past its check: line 1
\* was published, line 2 was read and dropped at the check, line 3 was never
\* read.
C33_Witness ==
    /\ kills = 1
    /\ ~running
    /\ Len(written["Stdout"]) = 3
    /\ reader["Stdout"].pc = "done"
    /\ reader["Stdout"].pos = 2
    /\ Published("Stdout") = 1

\* Every line of stream s that lines() can decode, up to the first it
\* cannot, has been handed out by try_recv.
AllDelivered(s) ==
    \A i \in 1..Len(written[s]) :
      (\A j \in 1..i : written[s][j].ok) =>
        \E k \in 1..Len(received) : received[k] = LineEvent(s, i)

\* C35: when kill() is never called, every line the child wrote before it
\* exited is eventually delivered by try_recv, whenever wait() is called.
C35_AllLinesDelivered ==
    (child = "exited") ~>
       (kills > 0 \/ \A s \in Streams : AllDelivered(s))

\* C34: when the child of the active command exits on its own and the loop
\* keeps polling, the command eventually is in a terminal state and
\* is_command_running() is false.
C34_ExitEndsCommand ==
    (child = "exited" /\ active_command.state.tag = "Running") ~>
       (/\ active_command.state.tag \in {"Completed", "Failed", "Cancelled"}
        /\ ~is_command_running)

====
